---- MODULE Spec2Model ----
(***************************************************************************)
(* A model of dev-backup: the manifest store, the backward chain walk of   *)
(* restore planning, the three-stage export/import pipelines, the push     *)
(* reconciliation, artifact naming and artifact registration, each         *)
(* translated from the Rust sources.                                       *)
(***************************************************************************)
EXTENDS Integers, Sequences, FiniteSets, TLC

VARIABLES
    file,       \* manifests/snapshots_v2.tsv: [exists, rows]
    snaps,      \* labels L for which <ls_root>/restore/snapshots/dev@L exists
    ppc,        \* plan_restore: "idle" | "loop" | "done"
    ptarget,    \* plan_restore: the label argument
    precs,      \* plan_restore: the records read from the manifest
    pcur,       \* plan_restore: `current`
    pchain,     \* plan_restore: `chain`
    pres,       \* plan_restore: "none" | "ok" | the error returned
    mdir,       \* the directory <ls_root>/manifests exists
    sinit,      \* ensure_initialized ran before the first append_record
    sapp,       \* the records handed to append_record so far
    sread,      \* what the last read_records call returned
    kind,       \* the pipeline run: "export" (run_send_pipeline) | "import" (run_receive_pipeline)
    opc,        \* the orchestrator's place in the pipeline function
    st,         \* per stage: "none" | "running" | "zero" | "nonzero" (exited)
    wstat,      \* per stage: the exit status its wait() returned, "none" before
    pipe,       \* per pipe: the bytes buffered between stage j and stage j + 1
    rd,         \* per pipe: who holds its read end: "none" | "parent" | "child" | "closed"
    todo,       \* the bytes stage 1 has still to write
    buf,        \* the bytes stage 2 has read and not yet written
    ores,       \* the pipeline call: "none" | "ok" | the error returned
    cfgcloud,   \* the configuration has a [cloud] section
    lfiles,     \* the artifact paths that exist on the local disk
    robj,       \* the bucket's artifact objects: a set of [key, body]
    rman,       \* the bucket's object manifests/snapshots_v2.tsv: [exists, rows]
    upc,        \* sync_push: "idle" | "loop" | "write" | "publish" | "done"
    urecs,      \* sync_push: `records`
    ui,         \* sync_push: the index of the record the loop is at
    uchanged,   \* sync_push: `changed`
    ures,       \* sync_push: "none" | "ok" | the error returned
    uploaded,   \* the keys the current push passed to a successful upload_object
    ustart,     \* the manifest table as the current push found it
    gfile,      \* the manifest table when the first push since the last success began
    gobj,       \* the artifact objects when that push began
    gprev,      \* how the push before the current one ended
    gpart,      \* a failed push since the last success had uploaded an artifact
    runs,       \* the pushes started
    rarg,       \* the file name the last artifact call was about, as its parts
    rbuilt,     \* build_artifact: the (label, parent) the name was built for
    rinfo,      \* what parse_artifact_filename returned for that name
    rres,       \* the last artifact call: "none" | "ok" | the error returned
    qpc,        \* sync_pull: "idle" | "plan" | "fetch" | "done"
    qtarget,    \* sync_pull: the label argument
    qrecs,      \* sync_pull: the records of the downloaded manifest
    qcur,       \* plan_chain_from_records: `current`
    qchain,     \* plan_chain_from_records: `chain`, then the plan
    qi,         \* sync_pull: the index of the plan record the loop is at
    qres,       \* sync_pull: "none" | "ok" | the error returned
    qdl,        \* the paths below the destination directory that were downloaded, in order
    drecs,      \* the policy: the records it is given
    dnow,       \* the policy: input.now, in seconds
    dmax,       \* the policy: input.max_months_between_anchor
    dpc,        \* decide_snapshot_type: "idle" | "done"
    danchor,    \* decide_snapshot_type: the index of last_anchor, 0 before
    dmonths,    \* decide_snapshot_type: diff_months
    dsum,       \* decide_snapshot_type: sum_incr
    dres,       \* decide_snapshot_type: "none" | "Anchor" | "Incremental" | the error
    hpc,        \* hydrate_restore: "idle" | "loop" | "done"
    hi,         \* hydrate_restore: the index of the plan record the loop is at
    hres,       \* hydrate_restore: "none" | "ok" | the error returned
    hran,       \* the labels the current hydrate ran the import pipeline for, in order
    hhad,       \* the snapshots that existed when the current hydrate began
    hprev,      \* how the hydrate before the current one ended, with its label
    hruns,      \* the hydrates started
    wsnaps,     \* the labels of the snapshots under paths.snapshots
    mlabel,     \* ws_run_month: the label given
    mrecs,      \* ws_run_month: sorted_records
    mdec,       \* ws_run_month: "none" | "Anchor" | "Incremental"
    mparent,    \* ws_run_month: parent_label, <<>> for None
    mres,       \* ws_run_month: "none" | "ok" | the error returned
    built,      \* the artifacts build_artifact made: pairs of label and parent
    tree,       \* the working tree at paths.dataset: its kind and what it holds
    aside,      \* a directory was moved aside to <dataset>_backup_<time>
    apc,        \* apply_restore: "idle" | "clear" | "snapshot" | "done"
    atarget,    \* apply_restore: the label given
    alabel,     \* apply_restore: resolved_label
    ares,       \* apply_restore: "none" | "ok" | the error returned
    astart      \* the working tree and the aside flag when the apply began

fsVars == <<file, snaps, mdir>>
planVars == <<ppc, ptarget, precs, pcur, pchain, pres>>
storeVars == <<sinit, sapp, sread>>
pipeVars == <<kind, opc, st, wstat, pipe, rd, todo, buf, ores>>
cloudVars == <<cfgcloud, lfiles, robj, rman>>
pushVars == <<upc, urecs, ui, uchanged, ures, uploaded, ustart, gfile, gobj, gprev, gpart, runs>>
regVars == <<rarg, rbuilt, rinfo, rres>>
syncVars == <<cloudVars, pushVars, regVars>>
pullVars == <<qpc, qtarget, qrecs, qcur, qchain, qi, qres, qdl>>
policyVars == <<drecs, dnow, dmax, dpc, danchor, dmonths, dsum, dres>>
hydrateVars == <<hpc, hi, hres, hran, hhad, hprev, hruns>>
monthVars == <<wsnaps, mlabel, mrecs, mdec, mparent, mres, built>>
applyVars == <<tree, aside, apc, atarget, alabel, ares, astart>>
tailVars == <<monthVars, applyVars>>
lateVars == <<pullVars, policyVars, hydrateVars, tailVars>>
vars == <<fsVars, planVars, storeVars, pipeVars, syncVars, lateVars>>

----------------------------------------------------------------------------
(* Bounds of the model *)

\* most data rows of a manifest table
MaxLen == 3
\* most loop iterations of a chain walk that are followed
MaxChain == 5
\* the bytes an OS pipe buffers before a write to it blocks
PipeCap == 1
\* most bytes the first stage of a pipeline writes
MaxData == 3
\* most push runs that are followed
MaxRuns == 3

\* the labels that occur in manifests
Labels == {"2024-01", "2024-02", "2024-03"}
\* a label argument that is no YYYY-MM
BadLabel == "2024-1"

----------------------------------------------------------------------------
(* The parts of the program that are not running *)

\* no plan_restore call was made
PlanIdle ==
    /\ ppc = "idle"
    /\ ptarget = ""
    /\ precs = <<>>
    /\ pcur = ""
    /\ pchain = <<>>
    /\ pres = "none"

\* no call of the manifest store was made
NoRead == [done |-> FALSE, ok |-> FALSE, records |-> <<>>]

StoreIdle ==
    /\ sinit = FALSE
    /\ sapp = <<>>
    /\ sread = NoRead

\* no pipeline was started
PipeIdle ==
    /\ kind = "export"
    /\ opc = [op |-> "idle", i |-> 0]
    /\ st = [i \in 1..3 |-> "none"]
    /\ wstat = [i \in 1..3 |-> "none"]
    /\ pipe = [j \in 1..2 |-> 0]
    /\ rd = [j \in 1..2 |-> "none"]
    /\ todo = 0
    /\ buf = 0
    /\ ores = "none"

\* no bucket is configured and no push was started
SyncIdle ==
    /\ cfgcloud = FALSE
    /\ lfiles = {}
    /\ robj = {}
    /\ rman = [exists |-> FALSE, rows |-> <<>>]
    /\ upc = "idle"
    /\ urecs = <<>>
    /\ ui = 0
    /\ uchanged = FALSE
    /\ ures = "none"
    /\ uploaded = <<>>
    /\ ustart = [exists |-> FALSE, rows |-> <<>>]
    /\ gfile = [exists |-> FALSE, rows |-> <<>>]
    /\ gobj = {}
    /\ gprev = "none"
    /\ gpart = FALSE
    /\ runs = 0

\* no artifact was built, parsed or registered
NoInfo == [some |-> FALSE, label |-> "", type |-> "", parent |-> <<>>]

RegIdle ==
    /\ rarg = <<>>
    /\ rbuilt = <<>>
    /\ rinfo = NoInfo
    /\ rres = "none"

\* no pull was started
PullIdle ==
    /\ qpc = "idle"
    /\ qtarget = ""
    /\ qrecs = <<>>
    /\ qcur = ""
    /\ qchain = <<>>
    /\ qi = 0
    /\ qres = "none"
    /\ qdl = <<>>

\* the policy was not asked
PolicyIdle ==
    /\ drecs = <<>>
    /\ dnow = 0
    /\ dmax = 0
    /\ dpc = "idle"
    /\ danchor = 0
    /\ dmonths = 0
    /\ dsum = 0
    /\ dres = "none"

\* no hydrate was started
HydrateIdle ==
    /\ hpc = "idle"
    /\ hi = 0
    /\ hres = "none"
    /\ hran = <<>>
    /\ hhad = {}
    /\ hprev = [res |-> "none", label |-> "", ran |-> 0]
    /\ hruns = 0

\* no run-month was started and nothing was built
MonthIdle ==
    /\ wsnaps = {}
    /\ mlabel = ""
    /\ mrecs = <<>>
    /\ mdec = "none"
    /\ mparent = <<>>
    /\ mres = "none"
    /\ built = {}

\* no working tree
NoTree == [kind |-> "absent", of |-> ""]

\* no apply was started
ApplyIdle ==
    /\ tree = NoTree
    /\ aside = FALSE
    /\ apc = "idle"
    /\ atarget = ""
    /\ alabel = ""
    /\ ares = "none"
    /\ astart = <<NoTree, FALSE>>

TailIdle == MonthIdle /\ ApplyIdle

LateIdle == PullIdle /\ PolicyIdle /\ HydrateIdle /\ TailIdle

----------------------------------------------------------------------------
(* Strings: the characters of the strings the program looks into *)

Chars(s) ==
    CASE s = "2024-01" -> <<"2", "0", "2", "4", "-", "0", "1">>
      [] s = "2024-02" -> <<"2", "0", "2", "4", "-", "0", "2">>
      [] s = "2024-03" -> <<"2", "0", "2", "4", "-", "0", "3">>
      [] s = "2024-1"  -> <<"2", "0", "2", "4", "-", "1">>
      [] s = "latest"  -> <<"l", "a", "t", "e", "s", "t">>
      [] OTHER         -> <<>>

Digits == {"0", "1", "2", "3", "4", "5", "6", "7", "8", "9"}

\* str::split(sep): the parts of cs between occurrences of sep
RECURSIVE SplitAt(_, _, _)
SplitAt(cs, sep, part) ==
    IF cs = <<>> THEN <<part>>
    ELSE IF Head(cs) = sep THEN <<part>> \o SplitAt(Tail(cs), sep, <<>>)
    ELSE SplitAt(Tail(cs), sep, Append(part, Head(cs)))

is_valid_label(label) ==
    LET parts == SplitAt(Chars(label), "-", <<>>)
    IN  /\ Len(parts) = 2
        /\ Len(parts[1]) = 4
        /\ Len(parts[2]) = 2
        /\ \A i \in 1..4 : parts[1][i] \in Digits
        /\ \A i \in 1..2 : parts[2][i] \in Digits

----------------------------------------------------------------------------
(* The manifest store *)

ManifestRecord(ts, label, type, parent, bytes, sha256, local_path, object_key) ==
    [ts |-> ts, label |-> label, type |-> type, parent |-> parent,
     bytes |-> bytes, sha256 |-> sha256, local_path |-> local_path,
     object_key |-> object_key]

\* the row "ts label type parent bytes sha256 local_path object_key"
HeaderRow == [kind |-> "header"]
\* the row a record serializes to
DataRow(r) == [kind |-> "data", rec |-> r]

NoFile == [exists |-> FALSE, rows |-> <<>>]

ensure_initialized(f) ==
    IF f.exists THEN f ELSE [exists |-> TRUE, rows |-> <<HeaderRow>>]

\* the table created anew on every append
append_record_truncating(f, r) == [exists |-> TRUE, rows |-> <<HeaderRow, DataRow(r)>>]

\* A fresh csv writer with has_headers at its default (true) writes the header
\* row of the struct before the first record it serializes.
append_record(f, r) ==
    [exists |-> TRUE, rows |-> f.rows \o <<HeaderRow, DataRow(r)>>]

\* The reader takes the first row as the header and deserializes every other
\* row; a header row in data position has "bytes" where a u64 is read.
read_records(f) ==
    IF ~f.exists \/ f.rows = <<>> THEN [ok |-> TRUE, records |-> <<>>]
    ELSE LET body == Tail(f.rows)
         IN  IF \E i \in 1..Len(body) : body[i].kind # "data"
             THEN [ok |-> FALSE, records |-> <<>>]
             ELSE [ok |-> TRUE, records |-> [i \in 1..Len(body) |-> body[i].rec]]

\* a table as the tests' write_manifest lays it out: the header, then the lines
WrittenManifest(recs) ==
    [exists |-> TRUE,
     rows |-> <<HeaderRow>> \o [i \in 1..Len(recs) |-> DataRow(recs[i])]]

----------------------------------------------------------------------------
(* The manifest store driven call by call *)

\* the records handed to append_record
StoreRows ==
    { ManifestRecord(1, "2024-01", "anchor", "", 1, "h", <<"/", "ls", "p">>, <<>>),
      ManifestRecord(1, "2024-02", "incremental", "2024-01", 2, "h", <<"/", "ls", "p">>, <<>>),
      ManifestRecord(1, "2024-03", "incremental", "2024-02", 3, "h", <<"/", "ls", "p">>, <<>>) }

\* create_dir_all of the parent, then the header row; nothing when the table exists
StoreEnsure ==
    /\ file' = ensure_initialized(file)
    /\ mdir' = TRUE
    /\ sinit' = (sinit \/ sapp = <<>>)
    /\ sread' = NoRead
    /\ UNCHANGED <<lateVars, snaps, planVars, sapp, pipeVars, syncVars>>

\* open(append, create) fails when the directory is missing
StoreAppend(r) ==
    /\ Len(sapp) < MaxLen
    /\ IF mdir
       THEN /\ file' = append_record(file, r)
            /\ sapp' = Append(sapp, r)
       ELSE UNCHANGED <<file, sapp>>
    /\ sread' = NoRead
    /\ UNCHANGED <<lateVars, snaps, mdir, planVars, sinit, pipeVars, syncVars>>

StoreRead ==
    /\ sread' = [done |-> TRUE, ok |-> read_records(file).ok,
                 records |-> read_records(file).records]
    /\ UNCHANGED <<fsVars, lateVars, planVars, sinit, sapp, pipeVars, syncVars>>

InitStore ==
    /\ file = NoFile
    /\ snaps = {}
    /\ mdir \in BOOLEAN
    /\ PlanIdle
    /\ StoreIdle
    /\ PipeIdle
    /\ SyncIdle
    /\ RegIdle
    /\ LateIdle

NextStore ==
    \/ StoreEnsure
    \/ \E r \in StoreRows : StoreAppend(r)
    \/ StoreRead

SpecStore == InitStore /\ [][NextStore]_vars

----------------------------------------------------------------------------
(* Chain resolution *)

\* the label of the last record, whatever its timestamp
LatestIsLastRow(records, i, best) ==
    IF records = <<>> THEN best
    ELSE [none |-> FALSE, ts |-> records[Len(records)].ts,
          label |-> records[Len(records)].label]

\* the label of the first record with the greatest timestamp
RECURSIVE LatestFrom(_, _, _)
LatestFrom(records, i, best) ==
    IF i > Len(records) THEN best
    ELSE IF best.none \/ records[i].ts > best.ts
         THEN LatestFrom(records, i + 1,
                         [none |-> FALSE, ts |-> records[i].ts, label |-> records[i].label])
         ELSE LatestFrom(records, i + 1, best)

resolve_latest_label(records) ==
    LatestFrom(records, 1, [none |-> TRUE, ts |-> 0, label |-> ""])

resolve_label_input(records, label) ==
    IF label = "latest"
    THEN LET best == resolve_latest_label(records)
         IN  IF best.none THEN [ok |-> FALSE, label |-> ""]
             ELSE [ok |-> TRUE, label |-> best.label]
    ELSE IF is_valid_label(label) THEN [ok |-> TRUE, label |-> label]
    ELSE [ok |-> FALSE, label |-> ""]

\* HashMap::insert over the records in order: the last row of a label stays
HasLabel(records, l) == \E i \in 1..Len(records) : records[i].label = l
\* or_insert over the records in order: the first row of a label stays
first_by_label(records, l) ==
    LET i == CHOOSE k \in 1..Len(records) :
                 /\ records[k].label = l
                 /\ \A j \in 1..(k - 1) : records[j].label # l
    IN  records[i]
latest_by_label(records, l) ==
    LET i == CHOOSE k \in 1..Len(records) :
                 /\ records[k].label = l
                 /\ \A j \in (k + 1)..Len(records) : records[j].label # l
    IN  records[i]

\* chain.reverse() left out
ReverseOmitted(s) == s
Reverse(s) == [i \in 1..Len(s) |-> s[Len(s) + 1 - i]]

\* the emptiness test of the parent left out
ParentNeverEmpty(record) == FALSE
\* record.parent.is_empty()
ParentIsEmpty(record) == record.parent = ""

\* the existence test of the parent snapshot left out
ParentSnapshotIgnored(parent) == FALSE
\* parent snapshot present at <ls_root>/restore/snapshots/dev@<parent>
ParentSnapshotExists(parent) == parent \in snaps

PlanStart(label) ==
    /\ ppc = "idle"
    /\ ptarget' = label
    /\ LET got == read_records(file)
       IN  IF ~got.ok
           THEN /\ pres' = "failed to parse manifest row"
                /\ ppc' = "done"
                /\ UNCHANGED <<precs, pcur, pchain>>
           ELSE IF got.records = <<>>
           THEN /\ pres' = "manifest is empty"
                /\ ppc' = "done"
                /\ UNCHANGED <<precs, pcur, pchain>>
           ELSE LET rl == resolve_label_input(got.records, label)
                IN  IF ~rl.ok
                    THEN /\ pres' = "label must be YYYY-MM"
                         /\ ppc' = "done"
                         /\ UNCHANGED <<precs, pcur, pchain>>
                    ELSE /\ precs' = got.records
                         /\ pcur' = rl.label
                         /\ pchain' = <<>>
                         /\ ppc' = "loop"
                         /\ UNCHANGED pres
    /\ UNCHANGED <<fsVars, lateVars, storeVars, pipeVars, syncVars>>

\* one iteration of the loop of plan_restore; the walk ends in chain.reverse()
PlanLoop ==
    /\ ppc = "loop"
    /\ Len(pchain) < MaxChain
    /\ IF ~HasLabel(precs, pcur)
       THEN /\ pres' = "label not found in manifest"
            /\ ppc' = "done"
            /\ UNCHANGED <<pcur, pchain>>
       ELSE LET record == latest_by_label(precs, pcur)
                chain == Append(pchain, record)
            IN  IF record.type = "anchor"
                THEN /\ pchain' = Reverse(chain)
                     /\ pres' = "ok"
                     /\ ppc' = "done"
                     /\ UNCHANGED pcur
                ELSE IF ParentIsEmpty(record)
                THEN /\ pres' = "incremental record missing parent"
                     /\ ppc' = "done"
                     /\ pchain' = chain
                     /\ UNCHANGED pcur
                ELSE IF ParentSnapshotExists(record.parent)
                THEN /\ pchain' = Reverse(chain)
                     /\ pres' = "ok"
                     /\ ppc' = "done"
                     /\ UNCHANGED pcur
                ELSE /\ pchain' = chain
                     /\ pcur' = record.parent
                     /\ UNCHANGED <<ppc, pres>>
    /\ UNCHANGED <<fsVars, lateVars, ptarget, precs, storeVars, pipeVars, syncVars>>

----------------------------------------------------------------------------
(* Restore planning over the manifests a table of at most MaxLen rows holds *)

\* the rows of the planning manifests: anchors and incrementals over Labels
PlanRows ==
    { ManifestRecord(1, l, "anchor", "", 1, "h", <<"/", "ls", "p">>, <<>>) : l \in Labels }
    \cup { ManifestRecord(1, l, "incremental", p, 1, "h", <<"/", "ls", "p">>, <<>>)
             : l \in Labels, p \in Labels \cup {""} }

\* rows are stamped in the order they were written
Stamp(recs) == [i \in 1..Len(recs) |-> [recs[i] EXCEPT !.ts = i]]

SeqsUpTo(S, n) == UNION { [1..k -> S] : k \in 0..n }

PlanInputs == Labels \cup {"latest", BadLabel}

\* Planning treats every label alike, so the labels of a manifest's rows are
\* taken in the order 2024-01, 2024-02, 2024-03 of their first appearance;
\* parents, snapshots and targets range over every label.
LabelIndex(l) == CASE l = "2024-01" -> 1 [] l = "2024-02" -> 2 [] OTHER -> 3
FirstAppearanceOrder(recs) ==
    \A i \in 1..Len(recs) :
        \/ LabelIndex(recs[i].label) = 1
        \/ \E j \in 1..(i - 1) : LabelIndex(recs[j].label) >= LabelIndex(recs[i].label) - 1

PlanManifests ==
    { WrittenManifest(Stamp(rs)) :
        rs \in { q \in SeqsUpTo(PlanRows, MaxLen) : FirstAppearanceOrder(q) } }

InitPlan ==
    /\ file \in {NoFile} \cup PlanManifests
    /\ snaps \in SUBSET Labels
    /\ mdir = file.exists
    /\ PlanIdle
    /\ StoreIdle
    /\ PipeIdle
    /\ SyncIdle
    /\ RegIdle
    /\ LateIdle

NextPlan ==
    \/ \E label \in PlanInputs : PlanStart(label)
    \/ PlanLoop

SpecPlan == InitPlan /\ [][NextPlan]_vars

----------------------------------------------------------------------------
(* The pipeline orchestrator: run_send_pipeline and run_receive_pipeline *)

Pc(op, i) == [op |-> op, i |-> i]

\* the statements of the pipeline function in a different order: each stage
\* waited on right after it is spawned
NextPcSequential(pc) ==
    CASE pc = Pc("spawn", 1) -> Pc("wait", 1)
      [] pc = Pc("wait", 1)  -> Pc("spawn", 2)
      [] pc = Pc("spawn", 2) -> Pc("wait", 2)
      [] pc = Pc("wait", 2)  -> Pc("spawn", 3)
      [] pc = Pc("spawn", 3) -> Pc("wait", 3)
      [] OTHER               -> Pc("check", 0)
\* the first stage run to completion before the others are spawned
NextPcFirstStageFirst(pc) ==
    CASE pc = Pc("spawn", 1) -> Pc("wait", 1)
      [] pc = Pc("wait", 1)  -> Pc("spawn", 2)
      [] pc = Pc("spawn", 2) -> Pc("spawn", 3)
      [] pc = Pc("spawn", 3) -> Pc("wait", 3)
      [] pc = Pc("wait", 3)  -> Pc("wait", 2)
      [] OTHER               -> Pc("check", 0)
\* the order of the statements: three spawns, then the waits on stage 3, 2, 1,
\* then the checks of the statuses
NextPc(pc) ==
    CASE pc = Pc("spawn", 1) -> Pc("spawn", 2)
      [] pc = Pc("spawn", 2) -> Pc("spawn", 3)
      [] pc = Pc("spawn", 3) -> Pc("wait", 3)
      [] pc = Pc("wait", 3)  -> Pc("wait", 2)
      [] pc = Pc("wait", 2)  -> Pc("wait", 1)
      [] OTHER               -> Pc("check", 0)

\* the program each stage runs
StageProgram(k, i) ==
    IF k = "export" THEN <<"btrfs send", "zstd", "age">>[i]
    ELSE <<"age", "zstd", "btrfs receive">>[i]

\* the context of a spawn that failed
SpawnError(k, i) ==
    IF k = "export"
    THEN <<"failed to start btrfs send", "failed to start zstd", "failed to start age">>[i]
    ELSE <<"failed to start age decrypt", "failed to start zstd",
           "failed to start btrfs receive">>[i]

\* the last stage's failure reported under the middle stage's message
ExitErrorCopied(k, i) ==
    IF k = "export" THEN <<"btrfs send failed", "zstd failed", "zstd failed">>[i]
    ELSE <<"age decrypt failed", "zstd decode failed", "zstd decode failed">>[i]
\* the error for a stage whose status is no success
ExitError(k, i) ==
    IF k = "export" THEN <<"btrfs send failed", "zstd failed", "age failed">>[i]
    ELSE <<"age decrypt failed", "zstd decode failed", "btrfs receive failed">>[i]

\* the status of the last stage not looked at
PipelineResultIgnoresLast(k, s1, s2, s3) ==
    IF s1 # "zero" THEN ExitError(k, 1)
    ELSE IF s2 # "zero" THEN ExitError(k, 2)
    ELSE "ok"
\* the three checks after the waits, in stage order
PipelineResult(k, s1, s2, s3) ==
    IF s1 # "zero" THEN ExitError(k, 1)
    ELSE IF s2 # "zero" THEN ExitError(k, 2)
    ELSE IF s3 # "zero" THEN ExitError(k, 3)
    ELSE "ok"

Exited(i) == st[i] \in {"zero", "nonzero"}

\* Command::spawn of stage i: its stdin is the read end of pipe i - 1, which
\* the parent gives away; its stdout is a new pipe whose read end the parent
\* keeps. A failed spawn returns at once and drops the read end it held.
OSpawn(i) ==
    /\ opc = Pc("spawn", i)
    /\ \/ /\ st' = [st EXCEPT ![i] = "running"]
          /\ rd' = [j \in 1..2 |-> IF j = i - 1 THEN "child"
                                   ELSE IF j = i THEN "parent" ELSE rd[j]]
          /\ opc' = NextPc(opc)
          /\ UNCHANGED ores
       \/ /\ ores' = SpawnError(kind, i)
          /\ rd' = [j \in 1..2 |-> IF rd[j] = "parent" THEN "closed" ELSE rd[j]]
          /\ opc' = Pc("done", 0)
          /\ UNCHANGED st
    /\ UNCHANGED <<fsVars, lateVars, planVars, storeVars, syncVars, kind, wstat, pipe, todo, buf>>

\* Child::wait on stage i: blocks until the stage has exited
OWait(i) ==
    /\ opc = Pc("wait", i)
    /\ Exited(i)
    /\ wstat' = [wstat EXCEPT ![i] = st[i]]
    /\ opc' = NextPc(opc)
    /\ UNCHANGED <<fsVars, lateVars, planVars, storeVars, syncVars, kind, st, pipe, rd, todo, buf, ores>>

OCheck ==
    /\ opc = Pc("check", 0)
    /\ ores' = PipelineResult(kind, wstat[1], wstat[2], wstat[3])
    /\ opc' = Pc("done", 0)
    /\ UNCHANGED <<fsVars, lateVars, planVars, storeVars, syncVars, kind, st, wstat, pipe, rd, todo, buf>>

\* the read end of the pipe into stage i closes when stage i exits
CloseStdin(i) == [j \in 1..2 |-> IF j = i - 1 THEN "closed" ELSE rd[j]]

\* stage 1 writes its stream into pipe 1 and exits at the end of it
Stage1Run ==
    /\ st[1] = "running"
    /\ \/ /\ todo > 0
          /\ rd[1] \in {"parent", "child"}
          /\ pipe[1] < PipeCap
          /\ pipe' = [pipe EXCEPT ![1] = @ + 1]
          /\ todo' = todo - 1
          /\ UNCHANGED st
       \/ /\ todo > 0
          /\ rd[1] = "closed"
          /\ st' = [st EXCEPT ![1] = "nonzero"]
          /\ UNCHANGED <<pipe, todo>>
       \/ /\ todo = 0
          /\ \E code \in {"zero", "nonzero"} : st' = [st EXCEPT ![1] = code]
          /\ UNCHANGED <<pipe, todo>>
    /\ UNCHANGED <<fsVars, lateVars, planVars, storeVars, syncVars, kind, opc, wstat, rd, buf, ores>>

\* stage 2 copies pipe 1 to pipe 2 and exits once pipe 1 is at its end
Stage2Run ==
    /\ st[2] = "running"
    /\ \/ /\ buf = 0
          /\ pipe[1] > 0
          /\ pipe' = [pipe EXCEPT ![1] = @ - 1]
          /\ buf' = 1
          /\ UNCHANGED <<st, rd>>
       \/ /\ buf = 1
          /\ rd[2] \in {"parent", "child"}
          /\ pipe[2] < PipeCap
          /\ pipe' = [pipe EXCEPT ![2] = @ + 1]
          /\ buf' = 0
          /\ UNCHANGED <<st, rd>>
       \/ /\ buf = 1
          /\ rd[2] = "closed"
          /\ st' = [st EXCEPT ![2] = "nonzero"]
          /\ rd' = CloseStdin(2)
          /\ UNCHANGED <<pipe, buf>>
       \/ /\ buf = 0
          /\ pipe[1] = 0
          /\ Exited(1)
          /\ \E code \in {"zero", "nonzero"} : st' = [st EXCEPT ![2] = code]
          /\ rd' = CloseStdin(2)
          /\ UNCHANGED <<pipe, buf>>
    /\ UNCHANGED <<fsVars, lateVars, planVars, storeVars, syncVars, kind, opc, wstat, todo, ores>>

\* stage 3 reads pipe 2 into its output and exits once pipe 2 is at its end
Stage3Run ==
    /\ st[3] = "running"
    /\ \/ /\ pipe[2] > 0
          /\ pipe' = [pipe EXCEPT ![2] = @ - 1]
          /\ UNCHANGED <<st, rd>>
       \/ /\ pipe[2] = 0
          /\ Exited(2)
          /\ \E code \in {"zero", "nonzero"} : st' = [st EXCEPT ![3] = code]
          /\ rd' = CloseStdin(3)
          /\ UNCHANGED pipe
    /\ UNCHANGED <<fsVars, lateVars, planVars, storeVars, syncVars, kind, opc, wstat, todo, buf, ores>>

\* a stage fails on its own before its stream is through
StageAbort(i) ==
    /\ st[i] = "running"
    /\ st' = [st EXCEPT ![i] = "nonzero"]
    /\ rd' = CloseStdin(i)
    /\ UNCHANGED <<fsVars, lateVars, planVars, storeVars, syncVars, kind, opc, wstat, pipe, todo, buf, ores>>

Orchestrator == (\E i \in 1..3 : OSpawn(i)) \/ (\E i \in 1..3 : OWait(i)) \/ OCheck

InitPipe ==
    /\ file = NoFile
    /\ snaps = {}
    /\ mdir = FALSE
    /\ PlanIdle
    /\ StoreIdle
    /\ SyncIdle
    /\ RegIdle
    /\ LateIdle
    /\ kind \in {"export", "import"}
    /\ opc = Pc("spawn", 1)
    /\ st = [i \in 1..3 |-> "none"]
    /\ wstat = [i \in 1..3 |-> "none"]
    /\ pipe = [j \in 1..2 |-> 0]
    /\ rd = [j \in 1..2 |-> "none"]
    /\ todo \in 0..MaxData
    /\ buf = 0
    /\ ores = "none"

NextPipe ==
    \/ Orchestrator
    \/ Stage1Run
    \/ Stage2Run
    \/ Stage3Run
    \/ \E i \in 1..3 : StageAbort(i)

\* The orchestrator runs on, and each stage exits once its input is at its end
\* and its output is drained; no stage is bound to fail.
SpecPipe ==
    /\ InitPipe
    /\ [][NextPipe]_vars
    /\ WF_vars(Orchestrator)
    /\ WF_vars(Stage1Run)
    /\ WF_vars(Stage2Run)
    /\ WF_vars(Stage3Run)

----------------------------------------------------------------------------
(* The sync reconciler: sync_push *)

\* paths are sequences of components, "/" the root directory
LsRoot == <<"/", "ls">>
\* the table published under another name
ManifestKeyUnversioned == <<"manifests", "snapshots.tsv">>

\* the fixed key of the manifest table
ManifestKey == <<"manifests", "snapshots_v2.tsv">>

\* Path::strip_prefix matches whole components
IsPrefix(a, b) == Len(a) <= Len(b) /\ SubSeq(b, 1, Len(a)) = a

\* trim_start_matches('/')
RECURSIVE TrimStartSlashes(_)
TrimStartSlashes(p) ==
    IF p # <<>> /\ Head(p) = "/" THEN TrimStartSlashes(Tail(p)) ELSE p

\* the storage root left in the key
build_object_key_keeps_root(ls_root, local_path) == TrimStartSlashes(local_path)
build_object_key(ls_root, local_path) ==
    LET key == IF IsPrefix(ls_root, local_path)
               THEN SubSeq(local_path, Len(ls_root) + 1, Len(local_path))
               ELSE local_path
    IN  TrimStartSlashes(key)

\* every row taken for unsynced
NeedsUploadAlways(record) == TRUE
\* a row that carries an object_key is passed over
NeedsUpload(record) == record.object_key = <<>>

\* a rewrite that stops before the last record
write_records_partial(f, records) ==
    WrittenManifest(SubSeq(records, 1, Len(records) - 1))
\* the whole table replaced by the header and the passed records
write_records(f, records) == WrittenManifest(records)

\* the put reported success and stored nothing
PutObjectLost(objs, key, body) == objs

\* put_object: the object under the key is replaced
PutObject(objs, key, body) ==
    { o \in objs : o.key # key } \cup { [key |-> key, body |-> body] }

\* the call returns the error
PushFail(msg) ==
    /\ ures' = msg
    /\ upc' = "done"
    /\ gpart' = (gpart \/ uploaded # <<>>)

\* sync_push up to the loop: the cloud configuration, the client, the records
PushStart ==
    /\ upc \in {"idle", "done"}
    /\ runs < MaxRuns
    /\ runs' = runs + 1
    /\ gprev' = (IF ures \in {"none", "ok"} THEN ures ELSE "error")
    /\ IF ures \in {"none", "ok"}
       THEN gfile' = file /\ gobj' = robj /\ gpart' = FALSE
       ELSE UNCHANGED <<gfile, gobj, gpart>>
    /\ uploaded' = <<>>
    /\ ustart' = file
    /\ IF ~cfgcloud
       THEN /\ ures' = "cloud config is required"
            /\ upc' = "done"
            /\ UNCHANGED <<urecs, ui, uchanged>>
       ELSE IF ~read_records(file).ok
       THEN /\ ures' = "failed to parse manifest row"
            /\ upc' = "done"
            /\ UNCHANGED <<urecs, ui, uchanged>>
       ELSE /\ urecs' = read_records(file).records
            /\ ui' = 1
            /\ uchanged' = FALSE
            /\ ures' = "none"
            /\ upc' = "loop"
    /\ UNCHANGED <<fsVars, lateVars, planVars, storeVars, pipeVars, regVars, cloudVars>>

\* the loop with the table rewritten after each upload
PushRecordPersisting ==
    /\ upc = "loop"
    /\ ui <= Len(urecs)
    /\ LET record == urecs[ui]
           object_key == build_object_key(LsRoot, record.local_path)
       IN  IF ~NeedsUpload(record)
           THEN /\ ui' = ui + 1
                /\ UNCHANGED <<file, robj, upc, urecs, uchanged, ures, uploaded, gpart>>
           ELSE IF record.local_path = <<>>
           THEN /\ PushFail("missing local_path")
                /\ UNCHANGED <<file, robj, urecs, ui, uchanged, uploaded>>
           ELSE IF record.local_path \notin lfiles
           THEN /\ PushFail("artifact missing")
                /\ UNCHANGED <<file, robj, urecs, ui, uchanged, uploaded>>
           ELSE \/ /\ robj' = PutObject(robj, object_key, record.local_path)
                   /\ urecs' = [urecs EXCEPT ![ui].object_key = object_key]
                   /\ file' = write_records(file, urecs')
                   /\ uchanged' = TRUE
                   /\ ui' = ui + 1
                   /\ uploaded' = Append(uploaded, object_key)
                   /\ UNCHANGED <<upc, ures, gpart>>
                \/ /\ PushFail("failed to upload")
                   /\ UNCHANGED <<file, robj, urecs, ui, uchanged, uploaded>>
    /\ UNCHANGED <<snaps, mdir, lateVars, planVars, storeVars, pipeVars, regVars, cfgcloud,
                   lfiles, rman, ustart, gfile, gobj, gprev, runs>>

\* one iteration of the loop over the records
PushRecord ==
    /\ upc = "loop"
    /\ ui <= Len(urecs)
    /\ LET record == urecs[ui]
           object_key == build_object_key(LsRoot, record.local_path)
       IN  IF ~NeedsUpload(record)
           THEN /\ ui' = ui + 1
                /\ UNCHANGED <<robj, upc, urecs, uchanged, ures, uploaded, gpart>>
           ELSE IF record.local_path = <<>>
           THEN /\ PushFail("missing local_path")
                /\ UNCHANGED <<robj, urecs, ui, uchanged, uploaded>>
           ELSE IF record.local_path \notin lfiles
           THEN /\ PushFail("artifact missing")
                /\ UNCHANGED <<robj, urecs, ui, uchanged, uploaded>>
           ELSE \/ /\ robj' = PutObject(robj, object_key, record.local_path)
                   /\ urecs' = [urecs EXCEPT ![ui].object_key = object_key]
                   /\ uchanged' = TRUE
                   /\ ui' = ui + 1
                   /\ uploaded' = Append(uploaded, object_key)
                   /\ UNCHANGED <<upc, ures, gpart>>
                \/ /\ PushFail("failed to upload")
                   /\ UNCHANGED <<robj, urecs, ui, uchanged, uploaded>>
    /\ UNCHANGED <<fsVars, lateVars, planVars, storeVars, pipeVars, regVars, cfgcloud, lfiles, rman,
                   ustart, gfile, gobj, gprev, runs>>

\* the rewrite left out: the table is published as it stands
PushWriteSkipped ==
    /\ upc = "loop"
    /\ ui > Len(urecs)
    /\ upc' = "publish"
    /\ UNCHANGED <<file, ures, gpart>>
    /\ UNCHANGED <<lateVars, snaps, mdir, planVars, storeVars, pipeVars, regVars, cloudVars,
                   urecs, ui, uchanged, uploaded, ustart, gfile, gobj, gprev, runs>>

\* after the loop: the table is rewritten when a record changed
PushWrite ==
    /\ upc = "loop"
    /\ ui > Len(urecs)
    /\ IF uchanged
       THEN \/ /\ file' = write_records(file, urecs)
               /\ upc' = "publish"
               /\ UNCHANGED <<ures, gpart>>
            \/ /\ PushFail("failed to write manifest")
               /\ UNCHANGED file
       ELSE /\ upc' = "publish"
            /\ UNCHANGED <<file, ures, gpart>>
    /\ UNCHANGED <<lateVars, snaps, mdir, planVars, storeVars, pipeVars, regVars, cloudVars,
                   urecs, ui, uchanged, uploaded, ustart, gfile, gobj, gprev, runs>>

\* the table itself uploaded under the fixed key
PushPublish ==
    /\ upc = "publish"
    /\ IF ~file.exists
       THEN /\ PushFail("failed to read file for upload")
            /\ UNCHANGED <<rman, uploaded>>
       ELSE \/ /\ rman' = file
               /\ uploaded' = Append(uploaded, ManifestKey)
               /\ ures' = "ok"
               /\ upc' = "done"
               /\ UNCHANGED gpart
            \/ /\ PushFail("failed to upload")
               /\ UNCHANGED <<rman, uploaded>>
    /\ UNCHANGED <<fsVars, lateVars, planVars, storeVars, pipeVars, regVars, cfgcloud, lfiles, robj,
                   urecs, ui, uchanged, ustart, gfile, gobj, gprev, runs>>

\* the artifact paths of the push manifests
AnchorPath == <<"/", "ls", "artifacts", "anchors", "dev@2024-01.full">>
IncrPath == <<"/", "ls", "artifacts", "incr", "dev@2024-02.incr">>
OutsidePath == <<"/", "mnt", "dev@2024-03.full">>

\* rows not yet synced, a row synced by an earlier push, a row without a path
PushRows ==
    { ManifestRecord(1, "2024-01", "anchor", "", 1, "h", AnchorPath, <<>>),
      ManifestRecord(1, "2024-01", "anchor", "", 1, "h", AnchorPath,
                     <<"artifacts", "anchors", "dev@2024-01.full">>),
      ManifestRecord(1, "2024-02", "incremental", "2024-01", 1, "h", IncrPath, <<>>),
      ManifestRecord(1, "2024-03", "anchor", "", 1, "h", OutsidePath, <<>>),
      ManifestRecord(1, "2024-03", "incremental", "2024-02", 1, "h", <<>>, <<>>) }

PushManifests == { WrittenManifest(Stamp(rs)) : rs \in SeqsUpTo(PushRows, MaxLen) }

\* every artifact on disk, or the incremental's file gone
PushDisks == { {AnchorPath, IncrPath, OutsidePath}, {AnchorPath, OutsidePath} }

\* the objects of the rows an earlier push synced
SyncedObjects(f) ==
    { [key |-> f.rows[i].rec.object_key, body |-> f.rows[i].rec.local_path] :
        i \in { k \in 1..Len(f.rows) : /\ f.rows[k].kind = "data"
                                       /\ f.rows[k].rec.object_key # <<>> } }

\* a table a registration appended to: the appended header stands where a row should
AppendedManifest ==
    append_record(ensure_initialized(NoFile),
                  ManifestRecord(1, "2024-01", "anchor", "", 1, "h", AnchorPath, <<>>))

InitPush ==
    /\ file \in {NoFile, AppendedManifest} \cup PushManifests
    /\ snaps = {}
    /\ mdir = file.exists
    /\ PlanIdle
    /\ StoreIdle
    /\ PipeIdle
    /\ RegIdle
    /\ LateIdle
    /\ cfgcloud \in BOOLEAN
    /\ lfiles \in PushDisks
    /\ robj = SyncedObjects(file)
    /\ rman = [exists |-> FALSE, rows |-> <<>>]
    /\ upc = "idle"
    /\ urecs = <<>>
    /\ ui = 0
    /\ uchanged = FALSE
    /\ ures = "none"
    /\ uploaded = <<>>
    /\ ustart = [exists |-> FALSE, rows |-> <<>>]
    /\ gfile = [exists |-> FALSE, rows |-> <<>>]
    /\ gobj = {}
    /\ gprev = "none"
    /\ gpart = FALSE
    /\ runs = 0

NextPush ==
    \/ PushStart
    \/ PushRecord
    \/ PushWrite
    \/ PushPublish

SpecPush == InitPush /\ [][NextPush]_vars

----------------------------------------------------------------------------
(* Artifact naming: build_artifact's output_name and parse_artifact_filename *)

\* a file name is the sequence of its parts: "dev@", a label, ".full",
\* ".incr.from_", ".send.zst.age"; the text of the name is the parts joined
RECURSIVE Join(_)
Join(parts) == IF parts = <<>> THEN "" ELSE Head(parts) \o Join(Tail(parts))

\* most parts of a file name handed to the parser
MaxParts == 5

\* str::strip_prefix and str::strip_suffix: None, or Some(rest)
strip_prefix(name, pre) ==
    IF IsPrefix(pre, name)
    THEN [some |-> TRUE, rest |-> SubSeq(name, Len(pre) + 1, Len(name))]
    ELSE [some |-> FALSE, rest |-> <<>>]

strip_suffix(name, suf) ==
    IF /\ Len(suf) <= Len(name)
       /\ SubSeq(name, Len(name) - Len(suf) + 1, Len(name)) = suf
    THEN [some |-> TRUE, rest |-> SubSeq(name, 1, Len(name) - Len(suf))]
    ELSE [some |-> FALSE, rest |-> <<>>]

\* the two format! calls of build_artifact; parent is <<>> or <<p>>
output_name(label, parent) ==
    IF parent # <<>>
    THEN <<"dev@", label, ".incr.from_", parent[1], ".send.zst.age">>
    ELSE <<"dev@", label, ".full", ".send.zst.age">>

ArtifactInfo(label, type, parent) ==
    [some |-> TRUE, label |-> label, type |-> type, parent |-> parent]

\* the parent of an incremental name built with its parent first
SwappedInfo(trimmed) ==
    LET parts == SplitAt(trimmed, ".incr.from_", <<>>)
    IN  ArtifactInfo(Join(parts[2]), "incremental", <<Join(parts[1])>>)
\* the second branch of parse_artifact_filename once both strips matched and
\* split gave exactly two parts
IncrementalInfo(trimmed) ==
    LET parts == SplitAt(trimmed, ".incr.from_", <<>>)
    IN  ArtifactInfo(Join(parts[1]), "incremental", <<Join(parts[2])>>)

parse_artifact_filename(filename) ==
    LET pre == strip_prefix(filename, <<"dev@">>)
        full == strip_suffix(pre.rest, <<".full", ".send.zst.age">>)
        trimmed == strip_suffix(pre.rest, <<".send.zst.age">>)
        parts == SplitAt(trimmed.rest, ".incr.from_", <<>>)
    IN  IF pre.some /\ full.some
        THEN ArtifactInfo(Join(full.rest), "anchor", <<>>)
        ELSE IF ~pre.some THEN NoInfo
        ELSE IF ~trimmed.some THEN NoInfo
        ELSE IF Len(parts) < 2 THEN NoInfo
        ELSE IF Len(parts) > 2 THEN NoInfo
        ELSE IncrementalInfo(trimmed.rest)

\* the parts file names are made of
NameParts == {"dev@", ".full", ".incr.from_", ".send.zst.age", "2024-01", BadLabel}

\* names of two labels, and names with .incr.from_ twice
LongNames ==
    { <<"dev@", "2024-02", ".incr.from_", "2024-01", ".send.zst.age">>,
      <<"dev@", "2024-01", ".incr.from_", "2024-02", ".send.zst.age">>,
      <<"dev@", "2024-02", ".incr.from_", "2024-01", ".incr.from_", "2024-03",
        ".send.zst.age">>,
      <<"dev@", "2024-02", ".incr.from_", ".incr.from_", "2024-01", ".send.zst.age">>,
      <<"dev@", "2024-02", ".incr.from_", "2024-01", ".full", ".send.zst.age">> }

NameInputs == SeqsUpTo(NameParts, MaxParts) \cup LongNames

\* the name is formatted for a label and an optional parent
NameBuild(label, parent) ==
    /\ rres = "none"
    /\ rarg = <<>>
    /\ rbuilt = <<>>
    /\ rarg' = output_name(label, parent)
    /\ rbuilt' = <<label, parent>>
    /\ UNCHANGED <<fsVars, lateVars, planVars, storeVars, pipeVars, cloudVars, pushVars, rinfo, rres>>

\* the name is parsed
NameParse ==
    /\ rres = "none"
    /\ rinfo' = parse_artifact_filename(rarg)
    /\ rres' = "parsed"
    /\ UNCHANGED <<fsVars, lateVars, planVars, storeVars, pipeVars, cloudVars, pushVars, rarg, rbuilt>>

InitNames ==
    /\ file = NoFile
    /\ snaps = {}
    /\ mdir = FALSE
    /\ PlanIdle
    /\ StoreIdle
    /\ PipeIdle
    /\ SyncIdle
    /\ LateIdle
    /\ rarg \in NameInputs
    /\ rbuilt = <<>>
    /\ rinfo = NoInfo
    /\ rres = "none"

NextNames ==
    \/ \E label \in Labels, parent \in {<<>>} \cup { <<p>> : p \in Labels } :
          NameBuild(label, parent)
    \/ NameParse

SpecNames == InitNames /\ [][NextNames]_vars

----------------------------------------------------------------------------
(* Artifact registration: register_artifact, alongside push *)

\* where a built artifact waits to be registered
InboxPath(name) == <<"/", "in", Join(name)>>

\* dest_dir.join(&info.filename)
DestPath(info, name) ==
    LsRoot \o <<"artifacts", IF info.type = "anchor" THEN "anchors" ELSE "incr",
                Join(name)>>

\* OffsetDateTime::now_utc(): later than the time of every row of the table
Now == Len(file.rows) + 1

DataRows(f) == SelectSeq(f.rows, LAMBDA row : row.kind = "data")

\* the appends of register_artifact: ensure_initialized, then append_record
AppendToManifest(f, r) == append_record(ensure_initialized(f), r)

\* info.parent.unwrap_or_default()
unwrap_or_default(parent) == IF parent = <<>> THEN "" ELSE parent[1]

Register(name) ==
    LET path == InboxPath(name)
        info == parse_artifact_filename(name)
        dest_path == DestPath(info, name)
        record == ManifestRecord(Now, info.label, info.type,
                                 unwrap_or_default(info.parent), 1, "h",
                                 dest_path, <<>>)
    IN  /\ upc \in {"idle", "done"}
        /\ Len(DataRows(file)) < MaxLen
        /\ rarg' = name
        /\ rinfo' = info
        /\ IF ~info.some
           THEN /\ rres' = "invalid artifact name"
                /\ UNCHANGED <<file, mdir, lfiles>>
           ELSE IF path \notin lfiles
           THEN /\ rres' = "failed to move artifact"
                /\ UNCHANGED <<file, mdir, lfiles>>
           ELSE /\ lfiles' = (lfiles \ {path}) \cup {dest_path}
                /\ file' = AppendToManifest(file, record)
                /\ mdir' = TRUE
                /\ rres' = "ok"
        /\ UNCHANGED <<lateVars, snaps, planVars, storeVars, pipeVars, cfgcloud, robj,
                       rman, pushVars, rbuilt>>

\* build_artifact: the snapshots are there and the pipeline leaves a file of
\* the canonical name, which is then handed to registration
Produce(label, parent) ==
    /\ upc \in {"idle", "done"}
    /\ label \in snaps
    /\ parent # <<>> => parent[1] \in snaps
    /\ lfiles' = lfiles \cup {InboxPath(output_name(label, parent))}
    /\ UNCHANGED <<fsVars, lateVars, planVars, storeVars, pipeVars, regVars, pushVars,
                   cfgcloud, robj, rman>>

\* the artifacts built: an anchor and an incremental
ProduceInputs == { <<"2024-03", <<>>>>, <<"2024-02", <<"2024-01">>>> }

\* names handed to registration: the two grammars, a label that is no YYYY-MM,
\* no label, no parent, no prefix
RegNames ==
    { <<"dev@", "2024-03", ".full", ".send.zst.age">>,
      <<"dev@", "2024-02", ".incr.from_", "2024-01", ".send.zst.age">>,
      <<"dev@", BadLabel, ".full", ".send.zst.age">>,
      <<"dev@", ".full", ".send.zst.age">>,
      <<"dev@", "2024-02", ".incr.from_", ".send.zst.age">>,
      <<"2024-01", ".full", ".send.zst.age">> }

\* the tables registration and push start from: none, an empty one, one of an
\* anchor row and an incremental row that no push has synced
LedgerManifests ==
    { NoFile,
      WrittenManifest(<<>>),
      WrittenManifest(Stamp(<<
          ManifestRecord(1, "2024-01", "anchor", "", 1, "h", AnchorPath, <<>>),
          ManifestRecord(1, "2024-02", "incremental", "2024-01", 1, "h", IncrPath, <<>>)>>)) }

InitLedger ==
    /\ file \in LedgerManifests
    /\ snaps = Labels
    /\ mdir = file.exists
    /\ PlanIdle
    /\ StoreIdle
    /\ PipeIdle
    /\ RegIdle
    /\ LateIdle
    /\ cfgcloud = TRUE
    /\ lfiles = {AnchorPath, IncrPath} \cup { InboxPath(name) : name \in RegNames }
    /\ robj = {}
    /\ rman = [exists |-> FALSE, rows |-> <<>>]
    /\ upc = "idle"
    /\ urecs = <<>>
    /\ ui = 0
    /\ uchanged = FALSE
    /\ ures = "none"
    /\ uploaded = <<>>
    /\ ustart = [exists |-> FALSE, rows |-> <<>>]
    /\ gfile = [exists |-> FALSE, rows |-> <<>>]
    /\ gobj = {}
    /\ gprev = "none"
    /\ gpart = FALSE
    /\ runs = 0

NextLedger ==
    \/ \E name \in RegNames : Register(name)
    \/ \E input \in ProduceInputs : Produce(input[1], input[2])
    \/ PushStart
    \/ PushRecord
    \/ PushWrite
    \/ PushPublish

SpecLedger == InitLedger /\ [][NextLedger]_vars

----------------------------------------------------------------------------
(* resolve_latest_label over tables of any order of timestamps *)

\* the timestamps of the rows, as the instants OffsetDateTime::parse gives
Instants == 1..3

LatestRows ==
    { ManifestRecord(t, l, ty.type, ty.parent, 1, "h", <<"/", "ls", "p">>, <<>>) :
        t \in Instants, l \in Labels,
        ty \in { [type |-> "anchor", parent |-> ""],
                 [type |-> "incremental", parent |-> "2024-01"] } }

\* resolve_label_input(records, "latest")
LatestResolve ==
    /\ ppc = "idle"
    /\ ptarget' = "latest"
    /\ LET got == resolve_label_input(precs, "latest")
       IN  /\ pcur' = got.label
           /\ pres' = IF got.ok THEN "ok" ELSE "no label found in manifest"
    /\ ppc' = "done"
    /\ UNCHANGED <<fsVars, lateVars, precs, pchain, storeVars, pipeVars, syncVars>>

InitLatest ==
    /\ file = NoFile
    /\ snaps = {}
    /\ mdir = FALSE
    /\ ppc = "idle"
    /\ ptarget = ""
    /\ precs \in SeqsUpTo(LatestRows, MaxLen)
    /\ pcur = ""
    /\ pchain = <<>>
    /\ pres = "none"
    /\ StoreIdle
    /\ PipeIdle
    /\ SyncIdle
    /\ RegIdle
    /\ LateIdle

NextLatest == LatestResolve

SpecLatest == InitLatest /\ [][NextLatest]_vars

----------------------------------------------------------------------------
(* The sync reconciler: sync_pull and plan_chain_from_records *)

\* the error of a pull, returned at once
PullFail(msg) ==
    /\ qres' = msg
    /\ qpc' = "done"

\* sync_pull up to the plan: the cloud configuration, the download of the
\* manifest table into the destination directory, its records, the label
PullStart(label) ==
    /\ qpc = "idle"
    /\ qtarget' = label
    /\ IF ~cfgcloud
       THEN /\ PullFail("cloud config is required")
            /\ UNCHANGED <<qrecs, qcur, qchain, qi, qdl>>
       ELSE IF ~rman.exists
       THEN /\ PullFail("failed to download")
            /\ UNCHANGED <<qrecs, qcur, qchain, qi, qdl>>
       ELSE \/ /\ PullFail("failed to download")
               /\ UNCHANGED <<qrecs, qcur, qchain, qi, qdl>>
            \/ /\ qdl' = <<<<"snapshots_v2.tsv">>>>
               /\ LET got == read_records(rman)
                  IN  IF ~got.ok
                      THEN /\ PullFail("failed to parse manifest row")
                           /\ UNCHANGED <<qrecs, qcur, qchain, qi>>
                      ELSE IF got.records = <<>>
                      THEN /\ PullFail("downloaded manifest is empty")
                           /\ UNCHANGED <<qrecs, qcur, qchain, qi>>
                      ELSE /\ qrecs' = got.records
                           /\ qcur' = IF label = "latest"
                                      THEN resolve_latest_label(got.records).label
                                      ELSE label
                           /\ qchain' = <<>>
                           /\ qpc' = "plan"
                           /\ UNCHANGED <<qi, qres>>
    /\ UNCHANGED <<fsVars, planVars, storeVars, pipeVars, syncVars, tailVars, policyVars,
                   hydrateVars>>

\* one iteration of the loop of plan_chain_from_records; the walk ends in
\* chain.reverse()
PullPlan ==
    /\ qpc = "plan"
    /\ Len(qchain) < MaxChain
    /\ IF ~HasLabel(qrecs, qcur)
       THEN /\ PullFail("label not found in manifest")
            /\ UNCHANGED <<qcur, qchain, qi>>
       ELSE LET record == latest_by_label(qrecs, qcur)
                chain == Append(qchain, record)
            IN  IF record.type = "anchor"
                THEN /\ qchain' = Reverse(chain)
                     /\ qi' = 1
                     /\ qpc' = "fetch"
                     /\ UNCHANGED <<qcur, qres>>
                ELSE IF ParentIsEmpty(record)
                THEN /\ PullFail("incremental record missing parent")
                     /\ qchain' = chain
                     /\ UNCHANGED <<qcur, qi>>
                ELSE /\ qchain' = chain
                     /\ qcur' = record.parent
                     /\ UNCHANGED <<qpc, qi, qres>>
    /\ UNCHANGED <<fsVars, planVars, storeVars, pipeVars, syncVars, tailVars, policyVars,
                   hydrateVars, qtarget, qrecs, qdl>>

\* the test of the key left out
KeyNeverEmpty(record) == FALSE
\* record.object_key.is_empty()
KeyIsEmpty(record) == record.object_key = <<>>

\* one iteration of the loop over the plan: the record's object is downloaded
\* to <dest>/<object_key>; after the last one the pull returns Ok
PullFetch ==
    /\ qpc = "fetch"
    /\ qi <= Len(qchain)
    /\ LET record == qchain[qi]
       IN  IF KeyIsEmpty(record)
           THEN /\ PullFail("missing object_key")
                /\ UNCHANGED <<qi, qdl>>
           ELSE IF ~\E o \in robj : o.key = record.object_key
           THEN /\ PullFail("failed to download")
                /\ UNCHANGED <<qi, qdl>>
           ELSE \/ /\ PullFail("failed to download")
                   /\ UNCHANGED <<qi, qdl>>
                \/ /\ qdl' = Append(qdl, record.object_key)
                   /\ qi' = qi + 1
                   /\ IF qi = Len(qchain)
                      THEN qres' = "ok" /\ qpc' = "done"
                      ELSE UNCHANGED <<qres, qpc>>
    /\ UNCHANGED <<fsVars, planVars, storeVars, pipeVars, syncVars, tailVars, policyVars,
                   hydrateVars, qtarget, qrecs, qcur, qchain>>

\* the labels of the pull manifests
PullLabels == {"2024-01", "2024-02"}

AnchorKey == <<"artifacts", "anchors", "a">>
IncrKey == <<"artifacts", "incr", "i">>

\* rows synced and not yet synced, an incremental without parent, and a pair of
\* incrementals that name each other
PullRows ==
    { ManifestRecord(1, l, "anchor", "", 1, "h", <<"/", "ls", "p">>, k) :
        l \in PullLabels, k \in {<<>>, AnchorKey} }
    \cup { ManifestRecord(1, "2024-02", "incremental", "2024-01", 1, "h",
                          <<"/", "ls", "p">>, k) : k \in {<<>>, IncrKey} }
    \cup { ManifestRecord(1, "2024-01", "incremental", "2024-02", 1, "h",
                          <<"/", "ls", "p">>, IncrKey),
           ManifestRecord(1, "2024-02", "incremental", "", 1, "h",
                          <<"/", "ls", "p">>, IncrKey) }

PullManifests == { WrittenManifest(Stamp(rs)) : rs \in SeqsUpTo(PullRows, MaxLen) }

PullInputs == PullLabels \cup {"latest", BadLabel}

\* the state a successful push left: the remote table is the local one and the
\* bucket holds the objects of the keyed rows
InitPull ==
    /\ file \in PullManifests
    /\ rman = file
    /\ mdir = TRUE
    /\ snaps = {}
    /\ robj = SyncedObjects(file)
    /\ cfgcloud \in BOOLEAN
    /\ lfiles = {}
    /\ upc = "idle"
    /\ urecs = <<>>
    /\ ui = 0
    /\ uchanged = FALSE
    /\ ures = "none"
    /\ uploaded = <<>>
    /\ ustart = [exists |-> FALSE, rows |-> <<>>]
    /\ gfile = [exists |-> FALSE, rows |-> <<>>]
    /\ gobj = {}
    /\ gprev = "none"
    /\ gpart = FALSE
    /\ runs = 0
    /\ PlanIdle
    /\ StoreIdle
    /\ PipeIdle
    /\ RegIdle
    /\ LateIdle

NextPull ==
    \/ \E label \in PullInputs : PullStart(label)
    \/ PullPlan
    \/ PullFetch

SpecPull == InitPull /\ [][NextPull]_vars

\* restore planning and pull planning over the same table
InitPlans ==
    /\ file \in PullManifests
    /\ rman = file
    /\ mdir = TRUE
    /\ snaps \in SUBSET PullLabels
    /\ robj = SyncedObjects(file)
    /\ cfgcloud = TRUE
    /\ lfiles = {}
    /\ upc = "idle"
    /\ urecs = <<>>
    /\ ui = 0
    /\ uchanged = FALSE
    /\ ures = "none"
    /\ uploaded = <<>>
    /\ ustart = [exists |-> FALSE, rows |-> <<>>]
    /\ gfile = [exists |-> FALSE, rows |-> <<>>]
    /\ gobj = {}
    /\ gprev = "none"
    /\ gpart = FALSE
    /\ runs = 0
    /\ PlanIdle
    /\ StoreIdle
    /\ PipeIdle
    /\ RegIdle
    /\ LateIdle

NextPlans ==
    \/ \E label \in PullInputs : qpc = "idle" /\ PlanStart(label)
    \/ qpc = "idle" /\ PlanLoop
    \/ \E label \in PullInputs : ppc = "done" /\ label = ptarget /\ PullStart(label)
    \/ PullPlan
    \/ PullFetch

SpecPlans == InitPlans /\ [][NextPlans]_vars

----------------------------------------------------------------------------
(* The policy engine: decide_snapshot_type *)

\* the seconds the policy takes for a month
MonthSeconds == 2592000

\* u64::MAX, scaled down: the greatest size a record or a sum can hold
MaxBytes == 7

\* `/` on i64: the quotient truncated toward zero
TruncDiv(a, b) == IF a >= 0 THEN a \div b ELSE -((-a) \div b)

\* u64::saturating_add
saturating_add(a, b) == IF a + b > MaxBytes THEN MaxBytes ELSE a + b

\* the first record taken for the anchor when no record is one
last_anchor_or_first(records) ==
    IF \E i \in 1..Len(records) : records[i].type = "anchor"
    THEN CHOOSE i \in 1..Len(records) :
             /\ records[i].type = "anchor"
             /\ \A j \in (i + 1)..Len(records) : records[j].type # "anchor"
    ELSE 1
\* records.iter().rev().find(anchor): the index of the record, 0 for None
last_anchor(records) ==
    IF \E i \in 1..Len(records) : records[i].type = "anchor"
    THEN CHOOSE i \in 1..Len(records) :
             /\ records[i].type = "anchor"
             /\ \A j \in (i + 1)..Len(records) : records[j].type # "anchor"
    ELSE 0

\* (input.now - anchor_ts).whole_seconds() / 2_592_000
diff_months(now, anchor_ts) == TruncDiv(now - anchor_ts, MonthSeconds)

\* the loop over the records: `record == last_anchor` compares the fields
RECURSIVE SumLoop(_, _, _, _, _)
SumLoop(records, i, anchor, seen_anchor, sum) ==
    IF i > Len(records) THEN sum
    ELSE IF records[i] = anchor
         THEN SumLoop(records, i + 1, anchor, TRUE, sum)
         ELSE IF seen_anchor
              THEN SumLoop(records, i + 1, anchor, TRUE,
                           saturating_add(sum, records[i].bytes))
              ELSE SumLoop(records, i + 1, anchor, FALSE, sum)

sum_incr(records, anchor) == SumLoop(records, 1, anchor, FALSE, 0)

\* last_anchor.bytes.max(1)
anchor_bytes(anchor) == IF anchor.bytes > 1 THEN anchor.bytes ELSE 1

\* the two tests that end decide_snapshot_type
Decision(months, max_months, sum, bytes) ==
    IF months >= max_months THEN "Anchor"
    ELSE IF sum >= bytes THEN "Anchor"
    ELSE "Incremental"

Decide ==
    /\ dpc = "idle"
    /\ dpc' = "done"
    /\ IF drecs = <<>>
       THEN /\ dres' = "Anchor"
            /\ UNCHANGED <<danchor, dmonths, dsum>>
       ELSE IF last_anchor(drecs) = 0
       THEN /\ dres' = "no anchor found in manifest"
            /\ UNCHANGED <<danchor, dmonths, dsum>>
       ELSE LET anchor == drecs[last_anchor(drecs)]
            IN  /\ danchor' = last_anchor(drecs)
                /\ dmonths' = diff_months(dnow, anchor.ts)
                /\ dsum' = sum_incr(drecs, anchor)
                /\ dres' = Decision(diff_months(dnow, anchor.ts), dmax,
                                    sum_incr(drecs, anchor), anchor_bytes(anchor))
    /\ UNCHANGED <<fsVars, planVars, storeVars, pipeVars, syncVars, tailVars, pullVars,
                   hydrateVars, drecs, dnow, dmax>>

\* the instants of the rows and of `now`
RowInstants == {0, MonthSeconds}
NowInstants == {-1, 0, MonthSeconds - 1, MonthSeconds, 2 * MonthSeconds}

\* anchors and incrementals of the sizes 0, 2 and the greatest one
PolicyRows ==
    { ManifestRecord(t, "2024-01", ty, "", b, "h", <<"/", "ls", "p">>, <<>>) :
        t \in RowInstants, ty \in {"anchor", "incremental"}, b \in {0, 2, MaxBytes} }

InitPolicy ==
    /\ file = NoFile
    /\ snaps = {}
    /\ mdir = FALSE
    /\ PlanIdle
    /\ StoreIdle
    /\ PipeIdle
    /\ SyncIdle
    /\ RegIdle
    /\ PullIdle
    /\ HydrateIdle
    /\ TailIdle
    /\ drecs \in SeqsUpTo(PolicyRows, MaxLen)
    /\ dnow \in NowInstants
    /\ dmax \in {0, 1, 2}
    /\ dpc = "idle"
    /\ danchor = 0
    /\ dmonths = 0
    /\ dsum = 0
    /\ dres = "none"

NextPolicy == Decide

SpecPolicy == InitPolicy /\ [][NextPolicy]_vars

----------------------------------------------------------------------------
(* Hydration: hydrate_restore over plan_restore *)

\* the hydrates one behaviour starts
MaxHydrates == 2

\* the existence test taken to fail always
NeverHydrated(record) == FALSE
\* Path::new(&snapshot_path).exists() for <restore_dir>/dev@<record.label>
AlreadyHydrated(record) == record.label \in snaps

\* the call returns the error
HydrateFail(msg) ==
    /\ hres' = msg
    /\ hpc' = "done"
    /\ UNCHANGED hi

\* hydrate_restore up to its call of plan_restore; the configuration names
\* the private key
HydrateBegin(label) ==
    /\ hpc \in {"idle", "done"}
    /\ hruns < MaxHydrates
    /\ hruns' = hruns + 1
    /\ hprev' = [res |-> hres, label |-> ptarget, ran |-> Len(hran)]
    /\ hhad' = snaps
    /\ hran' = <<>>
    /\ hi' = 0
    /\ hres' = "none"
    /\ hpc' = "plan"
    /\ ppc' = "idle"
    /\ ptarget' = label
    /\ precs' = <<>>
    /\ pcur' = ""
    /\ pchain' = <<>>
    /\ pres' = "none"
    /\ UNCHANGED <<fsVars, storeVars, pipeVars, syncVars, tailVars, pullVars, policyVars>>

\* plan_restore has returned: its error is passed on, its plan is looped over
HydratePlanned ==
    /\ hpc = "plan"
    /\ ppc = "done"
    /\ IF pres # "ok"
       THEN /\ hres' = pres
            /\ hpc' = "done"
            /\ UNCHANGED hi
       ELSE /\ hpc' = "loop"
            /\ hi' = 1
            /\ UNCHANGED hres
    /\ UNCHANGED <<fsVars, planVars, storeVars, pipeVars, syncVars, tailVars, pullVars,
                   policyVars, hran, hhad, hprev, hruns>>

\* one iteration of the loop over the plan; a receive pipeline that fails may
\* have left the snapshot it began
HydrateRecord ==
    /\ hpc = "loop"
    /\ hi <= Len(pchain)
    /\ LET record == pchain[hi]
       IN  IF AlreadyHydrated(record)
           THEN /\ hi' = hi + 1
                /\ UNCHANGED <<snaps, hran, hres, hpc>>
           ELSE IF record.local_path = <<>>
           THEN /\ HydrateFail("missing local_path")
                /\ UNCHANGED <<snaps, hran>>
           ELSE IF record.local_path \notin lfiles
           THEN /\ HydrateFail("artifact missing")
                /\ UNCHANGED <<snaps, hran>>
           ELSE /\ hran' = Append(hran, record.label)
                /\ \/ /\ snaps' = snaps \cup {record.label}
                      /\ hi' = hi + 1
                      /\ UNCHANGED <<hres, hpc>>
                   \/ /\ snaps' \in {snaps, snaps \cup {record.label}}
                      /\ HydrateFail("receive pipeline failed")
    /\ UNCHANGED <<file, mdir, planVars, storeVars, pipeVars, syncVars, tailVars, pullVars,
                   policyVars, hhad, hprev, hruns>>

\* the loop is through: Ok(())
HydrateReturn ==
    /\ hpc = "loop"
    /\ hi > Len(pchain)
    /\ hres' = "ok"
    /\ hpc' = "done"
    /\ UNCHANGED <<fsVars, planVars, storeVars, pipeVars, syncVars, tailVars, pullVars,
                   policyVars, hi, hran, hhad, hprev, hruns>>

\* the artifact of a label
HydratePath(l) == <<"/", "ls", "artifacts", l>>

\* anchors and incrementals over two labels, each incremental on the other
\* label, and an incremental without a path
HydrateRows ==
    { ManifestRecord(1, l, "anchor", "", 1, "h", HydratePath(l), <<>>) : l \in PullLabels }
    \cup { ManifestRecord(1, lp[1], "incremental", lp[2], 1, "h", HydratePath(lp[1]), <<>>)
             : lp \in { x \in PullLabels \X PullLabels : x[1] # x[2] } }
    \cup { ManifestRecord(1, "2024-02", "incremental", "2024-01", 1, "h", <<>>, <<>>) }

HydrateManifests == { WrittenManifest(Stamp(rs)) : rs \in SeqsUpTo(HydrateRows, MaxLen) }

\* every artifact on disk, or the anchor's file gone
HydrateDisks ==
    { { HydratePath(l) : l \in PullLabels }, { HydratePath("2024-02") } }

HydrateInputs == PullLabels \cup {"latest"}

InitHydrate ==
    /\ file \in HydrateManifests
    /\ snaps \in SUBSET PullLabels
    /\ mdir = TRUE
    /\ PlanIdle
    /\ StoreIdle
    /\ PipeIdle
    /\ RegIdle
    /\ PullIdle
    /\ PolicyIdle
    /\ HydrateIdle
    /\ TailIdle
    /\ cfgcloud = FALSE
    /\ lfiles \in HydrateDisks
    /\ robj = {}
    /\ rman = NoFile
    /\ upc = "idle"
    /\ urecs = <<>>
    /\ ui = 0
    /\ uchanged = FALSE
    /\ ures = "none"
    /\ uploaded = <<>>
    /\ ustart = NoFile
    /\ gfile = NoFile
    /\ gobj = {}
    /\ gprev = "none"
    /\ gpart = FALSE
    /\ runs = 0

NextHydrate ==
    \/ \E label \in HydrateInputs : HydrateBegin(label)
    \/ hpc = "plan" /\ PlanStart(ptarget)
    \/ hpc = "plan" /\ PlanLoop
    \/ HydratePlanned
    \/ HydrateRecord
    \/ HydrateReturn

SpecHydrate == InitHydrate /\ [][NextHydrate]_vars

----------------------------------------------------------------------------
(* The workstation's monthly run: ws_run_month *)

\* the artifacts one behaviour builds
MaxBuilt == 2

\* PolicyInput::default().max_months_between_anchor
DefaultMaxMonths == 12

\* the record put behind every record whose timestamp is not later than its own
RECURSIVE InsertByTs(_, _)
InsertByTs(sorted, record) ==
    IF sorted = <<>> THEN <<record>>
    ELSE IF sorted[Len(sorted)].ts <= record.ts
         THEN Append(sorted, record)
         ELSE Append(InsertByTs(SubSeq(sorted, 1, Len(sorted) - 1), record),
                     sorted[Len(sorted)])

\* sort_by_key on the parsed timestamps: a stable sort
RECURSIVE SortFrom(_, _, _)
SortFrom(records, i, sorted) ==
    IF i > Len(records) THEN sorted
    ELSE SortFrom(records, i + 1, InsertByTs(sorted, records[i]))

sort_records_by_ts(records) == SortFrom(records, 1, <<>>)

\* the local table when it exists, else the published one when a cloud is
\* configured, else no records
fetch_manifest_records_for_ws ==
    IF file.exists THEN read_records(file)
    ELSE IF ~cfgcloud THEN [ok |-> TRUE, records |-> <<>>]
    ELSE IF ~rman.exists THEN [ok |-> FALSE, records |-> <<>>]
    ELSE read_records(rman)

\* decide_snapshot_type as a function of its arguments
decide_snapshot_type(records, now, max_months) ==
    IF records = <<>> THEN "Anchor"
    ELSE IF last_anchor(records) = 0 THEN "no anchor found in manifest"
    ELSE LET anchor == records[last_anchor(records)]
         IN  Decision(diff_months(now, anchor.ts), max_months,
                      sum_incr(records, anchor), anchor_bytes(anchor))

\* the label of the first of the records
first_label_from_records(records) ==
    [none |-> FALSE, ts |-> records[1].ts, label |-> records[1].label]
\* resolve_latest_label(records)?, None being the error
latest_label_from_records(records) == resolve_latest_label(records)

\* what build_artifact answers before it starts the pipeline
BuildRefusal(label, parent) ==
    IF ~is_valid_label(label) THEN "label must be YYYY-MM"
    ELSE IF parent # <<>> /\ ~is_valid_label(parent[1]) THEN "label must be YYYY-MM"
    ELSE IF parent # <<>> /\ parent[1] \notin wsnaps \cup {label}
    THEN "parent snapshot not found"
    ELSE "none"

\* ws_run_month: the records, the decision, the parent, the snapshot, the
\* artifact; the snapshot is there when build_artifact looks for it
RunMonth(label, now) ==
    LET got == fetch_manifest_records_for_ws
        sorted == sort_records_by_ts(got.records)
        decision == IF sorted = <<>> THEN "Anchor"
                    ELSE decide_snapshot_type(sorted, now, DefaultMaxMonths)
        parent == IF decision = "Incremental"
                  THEN <<latest_label_from_records(sorted).label>>
                  ELSE <<>>
    IN  /\ upc \in {"idle", "done"}
        /\ Cardinality(built) < MaxBuilt
        /\ mlabel' = label
        /\ IF ~is_valid_label(label)
           THEN /\ mres' = "label must be YYYY-MM"
                /\ mrecs' = <<>>
                /\ mdec' = "none"
                /\ mparent' = <<>>
                /\ UNCHANGED <<wsnaps, built, lfiles>>
           ELSE IF ~got.ok
           THEN /\ mres' = "failed to read manifest"
                /\ mrecs' = <<>>
                /\ mdec' = "none"
                /\ mparent' = <<>>
                /\ UNCHANGED <<wsnaps, built, lfiles>>
           ELSE IF decision \notin {"Anchor", "Incremental"}
           THEN /\ mres' = decision
                /\ mrecs' = sorted
                /\ mdec' = "none"
                /\ mparent' = <<>>
                /\ UNCHANGED <<wsnaps, built, lfiles>>
           ELSE /\ mrecs' = sorted
                /\ mdec' = decision
                /\ mparent' = parent
                /\ \/ /\ label \notin wsnaps
                      /\ mres' = "failed to create snapshot"
                      /\ UNCHANGED <<wsnaps, built, lfiles>>
                   \/ /\ wsnaps' = wsnaps \cup {label}
                      /\ IF BuildRefusal(label, parent) # "none"
                         THEN /\ mres' = BuildRefusal(label, parent)
                              /\ UNCHANGED <<built, lfiles>>
                         ELSE \/ /\ mres' = "send pipeline failed"
                                 /\ UNCHANGED <<built, lfiles>>
                              \/ /\ mres' = "ok"
                                 /\ built' = built \cup {<<label, parent>>}
                                 /\ lfiles' = lfiles \cup
                                       {InboxPath(output_name(label, parent))}
        /\ UNCHANGED <<fsVars, planVars, storeVars, pipeVars, pushVars, regVars,
                       cfgcloud, robj, rman, pullVars, policyVars, hydrateVars,
                       applyVars>>

\* the labels the workstation runs for
MonthLabels == PullLabels \cup {BadLabel}

\* `now`: soon after the rows were written, and over twelve months later
MonthNows == {10, 10 + DefaultMaxMonths * MonthSeconds}

\* anchors of two bytes for 2024-01 and incrementals of one byte for 2024-02,
\* each written at one of two instants
MonthRows ==
    { ManifestRecord(t, "2024-01", "anchor", "", 2, "h", <<"/", "ls", "p">>, <<>>)
        : t \in {1, 2} }
    \cup { ManifestRecord(t, "2024-02", "incremental", "2024-01", 1, "h",
                          <<"/", "ls", "p">>, <<>>) : t \in {1, 2} }

MonthManifests == { WrittenManifest(rs) : rs \in SeqsUpTo(MonthRows, MaxLen) }

InitMonth ==
    /\ file \in {NoFile} \cup MonthManifests
    /\ snaps = {}
    /\ mdir = file.exists
    /\ PlanIdle
    /\ StoreIdle
    /\ PipeIdle
    /\ RegIdle
    /\ PullIdle
    /\ PolicyIdle
    /\ HydrateIdle
    /\ ApplyIdle
    /\ cfgcloud \in BOOLEAN
    /\ lfiles = {}
    /\ robj = {}
    /\ rman = WrittenManifest(<<ManifestRecord(1, "2024-01", "anchor", "", 2, "h",
                                               <<"/", "ls", "p">>, <<>>)>>)
    /\ upc = "idle"
    /\ urecs = <<>>
    /\ ui = 0
    /\ uchanged = FALSE
    /\ ures = "none"
    /\ uploaded = <<>>
    /\ ustart = NoFile
    /\ gfile = NoFile
    /\ gobj = {}
    /\ gprev = "none"
    /\ gpart = FALSE
    /\ runs = 0
    /\ wsnaps \in {{}, PullLabels}
    /\ mlabel = ""
    /\ mrecs = <<>>
    /\ mdec = "none"
    /\ mparent = <<>>
    /\ mres = "none"
    /\ built = {}

NextMonth ==
    \/ \E label \in MonthLabels, now \in MonthNows : RunMonth(label, now)
    \/ \E b \in built : Register(output_name(b[1], b[2]))

SpecMonth == InitMonth /\ [][NextMonth]_vars

----------------------------------------------------------------------------
(* Applying a restore: apply_restore *)

\* the restore snapshot taken to be there
RestoreSnapshotAssumed(label) == TRUE
\* Path::new(&restore_snapshot).exists() for <ls_root>/restore/snapshots/dev@<label>
RestoreSnapshotExists(label) == label \in snaps

\* resolve_label_from_manifest: the records, the empty test, resolve_label_input
resolve_label_from_manifest(label) ==
    LET got == read_records(file)
    IN  IF ~got.ok THEN [ok |-> FALSE, label |-> "", err |-> "failed to parse manifest row"]
        ELSE IF got.records = <<>>
        THEN [ok |-> FALSE, label |-> "", err |-> "manifest is empty"]
        ELSE LET rl == resolve_label_input(got.records, label)
             IN  IF ~rl.ok
                 THEN [ok |-> FALSE, label |-> "", err |-> "label must be YYYY-MM"]
                 ELSE [ok |-> TRUE, label |-> rl.label, err |-> ""]

\* the call returns the error
ApplyFail(msg) ==
    /\ ares' = msg
    /\ apc' = "done"

\* apply_restore up to the test of the restore snapshot
ApplyStart(label) ==
    /\ apc \in {"idle", "done"}
    /\ atarget' = label
    /\ astart' = <<tree, aside>>
    /\ LET rl == resolve_label_from_manifest(label)
       IN  IF ~rl.ok
           THEN /\ ApplyFail(rl.err)
                /\ alabel' = ""
           ELSE IF ~RestoreSnapshotExists(rl.label)
           THEN /\ ApplyFail("restore snapshot missing")
                /\ alabel' = rl.label
           ELSE /\ alabel' = rl.label
                /\ ares' = "none"
                /\ apc' = "clear"
    /\ UNCHANGED <<fsVars, planVars, storeVars, pipeVars, syncVars, pullVars,
                   policyVars, hydrateVars, monthVars, tree, aside>>

\* the existing working tree: a subvolume is deleted, anything else is moved
\* aside; either can fail and leave it
ApplyClear ==
    /\ apc = "clear"
    /\ IF tree.kind = "absent"
       THEN /\ apc' = "snapshot"
            /\ UNCHANGED <<tree, aside, ares>>
       ELSE IF tree.kind = "subvolume"
       THEN \/ /\ tree' = NoTree
               /\ apc' = "snapshot"
               /\ UNCHANGED <<aside, ares>>
            \/ /\ ApplyFail("failed to delete subvolume")
               /\ UNCHANGED <<tree, aside>>
       ELSE \/ /\ tree' = NoTree
               /\ aside' = TRUE
               /\ apc' = "snapshot"
               /\ UNCHANGED ares
            \/ /\ ApplyFail("failed to move existing worktree")
               /\ UNCHANGED <<tree, aside>>
    /\ UNCHANGED <<fsVars, planVars, storeVars, pipeVars, syncVars, pullVars,
                   policyVars, hydrateVars, monthVars, atarget, alabel, astart>>

\* snapshot_writable of the restore snapshot at the working tree
ApplySnapshot ==
    /\ apc = "snapshot"
    /\ \/ /\ tree' = [kind |-> "subvolume", of |-> alabel]
          /\ ares' = "ok"
          /\ apc' = "done"
       \/ /\ ApplyFail("failed to create snapshot")
          /\ UNCHANGED tree
    /\ UNCHANGED <<fsVars, planVars, storeVars, pipeVars, syncVars, pullVars,
                   policyVars, hydrateVars, monthVars, aside, atarget, alabel, astart>>

\* the working trees an apply meets: none, a subvolume, a plain directory
ApplyTrees ==
    { NoTree, [kind |-> "subvolume", of |-> "work"], [kind |-> "directory", of |-> "work"] }

ApplyInputs == PullLabels \cup {"latest", BadLabel}

InitApply ==
    /\ file \in {NoFile, WrittenManifest(<<>>), AppendedManifest} \cup HydrateManifests
    /\ snaps \in SUBSET PullLabels
    /\ mdir = file.exists
    /\ PlanIdle
    /\ StoreIdle
    /\ PipeIdle
    /\ SyncIdle
    /\ RegIdle
    /\ PullIdle
    /\ PolicyIdle
    /\ HydrateIdle
    /\ MonthIdle
    /\ tree \in ApplyTrees
    /\ aside = FALSE
    /\ apc = "idle"
    /\ atarget = ""
    /\ alabel = ""
    /\ ares = "none"
    /\ astart = <<NoTree, FALSE>>

NextApply ==
    \/ \E label \in ApplyInputs : ApplyStart(label)
    \/ ApplyClear
    \/ ApplySnapshot

SpecApply == InitApply /\ [][NextApply]_vars

----------------------------------------------------------------------------
(* Claims about restore planning *)

\* what the finished plan_restore call was given
PlanRead == read_records(file)
PlanResolved == resolve_label_input(PlanRead.records, ptarget)
PlanCallable == PlanRead.ok /\ PlanRead.records # <<>> /\ PlanResolved.ok

\* the parent pointers of l lead to an anchor past no existing snapshot
RECURSIVE LeadsToAnchor(_, _, _)
LeadsToAnchor(records, l, n) ==
    /\ HasLabel(records, l)
    /\ LET r == latest_by_label(records, l)
       IN  \/ r.type = "anchor"
           \/ /\ n > 0
              /\ r.parent # ""
              /\ r.parent \notin snaps
              /\ LeadsToAnchor(records, r.parent, n - 1)

\* the records from the anchor down to l, oldest first
RECURSIVE PathFromAnchor(_, _, _)
PathFromAnchor(records, l, n) ==
    LET r == latest_by_label(records, l)
    IN  IF r.type = "anchor" \/ n = 0 THEN <<r>>
        ELSE Append(PathFromAnchor(records, r.parent, n - 1), r)

\* C1: when the target's parent pointers lead to an anchor and no ancestor's
\* snapshot exists locally, plan_restore returns exactly the records of that
\* path, oldest first: the anchor first, the target last, and every later
\* record's parent the label of the record before it.
C1_PlanReturnsPathOldestFirst ==
    (/\ ppc = "done"
     /\ PlanCallable
     /\ LeadsToAnchor(PlanRead.records, PlanResolved.label, Len(PlanRead.records)))
    => /\ pres = "ok"
       /\ pchain = PathFromAnchor(PlanRead.records, PlanResolved.label, Len(PlanRead.records))
       /\ pchain[1].type = "anchor"
       /\ pchain[Len(pchain)].label = PlanResolved.label
       /\ \A i \in 2..Len(pchain) : pchain[i].parent = pchain[i - 1].label
       /\ \A i \in 2..Len(pchain) : pchain[i].type # "anchor"

C1_Witness ==
    /\ ppc = "done"
    /\ pres = "ok"
    /\ ptarget \in Labels
    /\ LeadsToAnchor(PlanRead.records, ptarget, Len(PlanRead.records))
    /\ Len(pchain) = 3
    /\ pchain[1].type = "anchor"
    /\ pchain[3].label = ptarget

\* the walk from l meets an incremental whose parent's snapshot exists before
\* it meets an anchor, a missing label or an empty parent
RECURSIVE StopsAtSnapshot(_, _, _)
StopsAtSnapshot(records, l, n) ==
    /\ HasLabel(records, l)
    /\ LET r == latest_by_label(records, l)
       IN  /\ r.type # "anchor"
           /\ r.parent # ""
           /\ \/ r.parent \in snaps
              \/ n > 0 /\ StopsAtSnapshot(records, r.parent, n - 1)

\* the records walked from l to that incremental, the incremental first
RECURSIVE PathFromSnapshot(_, _, _)
PathFromSnapshot(records, l, n) ==
    LET r == latest_by_label(records, l)
    IN  IF r.parent \in snaps \/ n = 0 THEN <<r>>
        ELSE Append(PathFromSnapshot(records, r.parent, n - 1), r)

\* the labels the parent pointers of l lead through, l included
RECURSIVE LineageOf(_, _, _)
LineageOf(records, l, n) ==
    IF ~HasLabel(records, l) THEN {l}
    ELSE LET r == latest_by_label(records, l)
         IN  IF r.type = "anchor" \/ r.parent = "" \/ n = 0 THEN {l}
             ELSE {l} \cup LineageOf(records, r.parent, n - 1)

ChainLabels == { pchain[i].label : i \in 1..Len(pchain) }

StoppedAtSnapshot ==
    /\ ppc = "done"
    /\ PlanCallable
    /\ StopsAtSnapshot(PlanRead.records, PlanResolved.label, Len(PlanRead.records))

\* C2 as stated: the walk stops at the first incremental whose parent's
\* snapshot exists; that incremental is the first record of the chain and
\* neither the parent's record nor any older record is in the chain.
C2_ParentAndOlderNeverInChain ==
    StoppedAtSnapshot
    => /\ pres = "ok"
       /\ pchain[1].type # "anchor"
       /\ pchain[1].parent \in snaps
       /\ ChainLabels \cap LineageOf(PlanRead.records, pchain[1].parent,
                                     Len(PlanRead.records)) = {}

\* C2 (amended): the walk stops at the first incremental whose parent's
\* snapshot exists; the chain is exactly the records walked from the target to
\* that incremental, the incremental first, and the parent's record and older
\* records are in the chain only where the parent pointers lead from them back
\* to that incremental (a cycle of parent pointers).
C2_StopsAtFirstExistingParent ==
    StoppedAtSnapshot
    => /\ pres = "ok"
       /\ pchain = PathFromSnapshot(PlanRead.records, PlanResolved.label,
                                    Len(PlanRead.records))
       /\ pchain[1].type # "anchor"
       /\ pchain[1].parent \in snaps
       /\ pchain[Len(pchain)].label = PlanResolved.label
       /\ \A i \in 2..Len(pchain) :
              /\ pchain[i].parent = pchain[i - 1].label
              /\ pchain[i].parent \notin snaps
       /\ \A l \in ChainLabels \cap LineageOf(PlanRead.records, pchain[1].parent,
                                               Len(PlanRead.records)) :
              pchain[1].label \in LineageOf(PlanRead.records, l, Len(PlanRead.records))

C2_Witness ==
    /\ StoppedAtSnapshot
    /\ pres = "ok"
    /\ Len(pchain) = 2
    /\ pchain[1].parent \in snaps
    /\ HasLabel(PlanRead.records, pchain[1].parent)
    /\ latest_by_label(PlanRead.records, pchain[1].parent).type = "anchor"

----------------------------------------------------------------------------
(* Claims about the manifest store *)

\* C3: after ensure_initialized and any number of append_record calls,
\* read_records succeeds and returns exactly the appended records, in append
\* order: each append_record wrote exactly one row.
C3_ReadReturnsAppendedRecords ==
    (sread.done /\ sinit) => (sread.ok /\ sread.records = sapp)

----------------------------------------------------------------------------
(* Claims about the pipeline orchestrator *)

Returned == opc = Pc("done", 0)
Waiting == opc.op = "wait"

\* C4: in the export and in the import pipeline every stage is spawned, with
\* its input connected to the previous stage's output, before the orchestrator
\* waits on any stage.
C4_AllSpawnedBeforeAnyWait ==
    (Waiting \/ \E i \in 1..3 : wstat[i] # "none")
    => /\ \A i \in 1..3 : st[i] # "none"
       /\ \A j \in 1..2 : rd[j] \in {"child", "closed"}

C4_Witness ==
    /\ kind = "import"
    /\ opc = Pc("wait", 3)
    /\ \A i \in 1..3 : st[i] = "running"
    /\ \A j \in 1..2 : rd[j] = "child"

\* stage j has bytes to write and pipe j is full
WriterBlocked(j) ==
    /\ st[j] = "running"
    /\ rd[j] \in {"parent", "child"}
    /\ pipe[j] = PipeCap
    /\ IF j = 1 THEN todo > 0 ELSE buf = 1

\* the orchestrator is in wait() on a stage that has not exited
OrchestratorBlocked == Waiting /\ ~Exited(opc.i)

NoWriterBlockedOnUnstartedReader ==
    ~(OrchestratorBlocked /\ \E j \in 1..2 : WriterBlocked(j) /\ st[j + 1] = "none")

\* C5: with pipes of bounded capacity the orchestrator is never blocked in a
\* wait while a stage is blocked writing to a pipe whose reader has not been
\* started, and, every stage exiting once its input is at its end and its
\* output drained, the pipeline call eventually returns.
C5_NoDeadlockAndReturns ==
    []NoWriterBlockedOnUnstartedReader /\ <>Returned

C5_Witness ==
    /\ OrchestratorBlocked
    /\ WriterBlocked(1)
    /\ st[2] = "running"
    /\ todo > 1

\* C6: a pipeline run reports success if and only if every stage exited with
\* status zero.
C6_SuccessIffAllZero ==
    Returned => (ores = "ok" <=> \A i \in 1..3 : st[i] = "zero")

C6_Witness ==
    /\ Returned
    /\ ores = "ok"
    /\ \A i \in 1..3 : wstat[i] = "zero"

\* the program an error message names
NamedProgram(msg) ==
    CASE msg \in {"btrfs send failed"} -> "btrfs send"
      [] msg \in {"zstd failed", "zstd decode failed"} -> "zstd"
      [] msg \in {"age failed", "age decrypt failed"} -> "age"
      [] msg \in {"btrfs receive failed"} -> "btrfs receive"
      [] OTHER -> "no stage"

OnlyStageFailed(i) ==
    /\ Returned
    /\ st[i] = "nonzero"
    /\ \A j \in (1..3) \ {i} : st[j] = "zero"

\* C7: when exactly one stage exits non-zero and the other two exit zero, the
\* error reported names exactly that stage, at each of the three positions, in
\* the export and in the import pipeline.
C7_ErrorNamesFailedStage ==
    \A i \in 1..3 : OnlyStageFailed(i) => NamedProgram(ores) = StageProgram(kind, i)

C7_Witness ==
    /\ kind = "import"
    /\ OnlyStageFailed(3)
    /\ ores = "btrfs receive failed"

\* C8: whenever the pipeline call returns an error, every stage that was
\* spawned has been waited on (and none was killed).
C8_ErrorOnlyAfterAllWaited ==
    (Returned /\ ores # "ok")
    => \A i \in 1..3 : st[i] # "none" => wstat[i] # "none"

----------------------------------------------------------------------------
(* Claims about the sync reconciler *)

PushReturned == upc = "done"
PushSucceeded == PushReturned /\ ures = "ok"
\* the push now running or returned began right after a successful push
AfterSuccessfulPush == upc # "idle" /\ gprev = "ok"
\* the push now running or returned began after a push that returned an error
AfterFailedPush == upc # "idle" /\ gprev = "error"

\* the key of each artifact: its path below the storage root, no leading separator
ExpectedKey(local_path) ==
    CASE local_path = AnchorPath -> <<"artifacts", "anchors", "dev@2024-01.full">>
      [] local_path = IncrPath -> <<"artifacts", "incr", "dev@2024-02.incr">>
      [] local_path = OutsidePath -> <<"mnt", "dev@2024-03.full">>
      [] OTHER -> <<>>

Unkeyed(record) == record.object_key = <<>>
RecordsOf(f) == read_records(f).records

\* the keys one push puts for a table: one per unkeyed row, in row order
ArtifactUploadsFor(recs) ==
    LET todoRecs == SelectSeq(recs, Unkeyed)
    IN  [i \in 1..Len(todoRecs) |-> ExpectedKey(todoRecs[i].local_path)]

\* the table one uninterrupted successful push leaves
TableAfterOnePush(f) ==
    LET recs == RecordsOf(f)
    IN  IF \E i \in 1..Len(recs) : Unkeyed(recs[i])
        THEN [exists |-> TRUE,
              rows |-> <<HeaderRow>> \o
                       [i \in 1..Len(recs) |->
                          DataRow(IF Unkeyed(recs[i])
                                  THEN [recs[i] EXCEPT
                                          !.object_key = ExpectedKey(recs[i].local_path)]
                                  ELSE recs[i])]]
        ELSE f

\* the remote objects one uninterrupted successful push leaves
RECURSIVE ObjectsAfterOnePush(_, _)
ObjectsAfterOnePush(objs, recs) ==
    IF recs = <<>> THEN objs
    ELSE LET r == Head(recs)
             k == ExpectedKey(r.local_path)
         IN  ObjectsAfterOnePush(
                 IF Unkeyed(r)
                 THEN { o \in objs : o.key # k } \cup {[key |-> k, body |-> r.local_path]}
                 ELSE objs,
                 Tail(recs))

\* C9 as stated: a push that follows a successful push, nothing registered in
\* between, uploads nothing and leaves the manifest table as it was.
C9_SecondPushUploadsNothing ==
    (AfterSuccessfulPush /\ PushReturned) => (uploaded = <<>> /\ file = ustart)

\* C9 amended: a push that follows a successful push, nothing registered in
\* between, uploads no artifact and leaves the manifest table and the remote
\* artifact objects as they were; the only object it puts is the manifest table
\* under its fixed key.
C9_SecondPushUploadsOnlyManifest ==
    AfterSuccessfulPush =>
        /\ file = ustart
        /\ robj = gobj
        /\ \A i \in 1..Len(uploaded) : uploaded[i] = ManifestKey
        /\ PushSucceeded => (uploaded = <<ManifestKey>> /\ rman = file)

\* a second push has succeeded after a first push that uploaded the incremental
C9_Witness ==
    /\ AfterSuccessfulPush
    /\ PushSucceeded
    /\ uploaded = <<ManifestKey>>
    /\ Len(RecordsOf(file)) >= 2
    /\ \E i \in 1..Len(RecordsOf(file)) :
           RecordsOf(file)[i].object_key = ExpectedKey(IncrPath)

\* C10: a push that succeeds, run first or re-run after pushes that failed
\* partway, has passed over the rows that carried an object_key when it began
\* and uploaded every row that did not, in row order, followed by the table;
\* it leaves the local table, the remote artifact objects and the remote table
\* that one uninterrupted successful push leaves from the state before the
\* first of those pushes.
C10_RerunEndsAsOneUninterruptedPush ==
    PushSucceeded =>
        /\ uploaded = ArtifactUploadsFor(RecordsOf(ustart)) \o <<ManifestKey>>
        /\ file = TableAfterOnePush(gfile)
        /\ robj = ObjectsAfterOnePush(gobj, RecordsOf(gfile))
        /\ rman = file

\* a re-run succeeded after a push that had uploaded an artifact and then failed;
\* it passed over a keyed row and uploaded an artifact again
C10_Witness ==
    /\ PushSucceeded
    /\ AfterFailedPush
    /\ gpart
    /\ Len(uploaded) >= 2
    /\ \E i \in 1..Len(RecordsOf(ustart)) : ~Unkeyed(RecordsOf(ustart)[i])
    /\ \E i \in 1..Len(RecordsOf(gfile)) : Unkeyed(RecordsOf(gfile)[i])

\* the remote store holds the artifact of the record under the record's key
Holds(objs, record) ==
    [key |-> record.object_key, body |-> record.local_path] \in objs

UploadedKeys == { uploaded[i] : i \in 1..Len(uploaded) }

\* every key of the table on disk names an object that was uploaded
PersistedKeysUploaded ==
    \A i \in 1..Len(RecordsOf(file)) :
        ~Unkeyed(RecordsOf(file)[i]) =>
            \E o \in robj : o.key = RecordsOf(file)[i].object_key

\* a key set on a record by the running push was uploaded by that push
KeySetAfterUpload ==
    upc \in {"loop", "publish"} =>
        \A i \in 1..Len(urecs) :
            urecs[i].object_key # RecordsOf(ustart)[i].object_key =>
                /\ i < ui
                /\ urecs[i].object_key \in UploadedKeys
                /\ Holds(robj, urecs[i])

\* the table changes only on the step that ends the loop, the step a push takes
\* once, and no artifact is uploaded after it
RewrittenOnceAfterUploads ==
    /\ file' # file => (upc = "loop" /\ ui > Len(urecs) /\ upc' = "publish")
    /\ upc = "publish" => (upc' \in {"publish", "done"} /\ robj' = robj)
    /\ upc' = "publish" => upc \in {"loop", "publish"}
    /\ robj' # robj => (upc = "loop" /\ upc' = "loop" /\ file' = file)

\* C11: during push a record's object_key is set only after the upload of its
\* artifact succeeded, and the table is rewritten at most once per push, after
\* all uploads of that push; so every non-empty object_key of the table on disk
\* names an object that was uploaded.
C11_KeyOnlyAfterUploadOneRewrite ==
    /\ [](PersistedKeysUploaded /\ KeySetAfterUpload)
    /\ [][RewrittenOnceAfterUploads]_vars

\* a push uploaded two artifacts and then rewrote the table with their keys
C11_Witness ==
    /\ upc = "publish"
    /\ file # ustart
    /\ Len(uploaded) >= 2
    /\ \E i \in 1..Len(RecordsOf(file)) :
           /\ Unkeyed(RecordsOf(ustart)[i])
           /\ RecordsOf(file)[i].object_key = ExpectedKey(IncrPath)

LastUpload == uploaded[Len(uploaded)]

\* C12: a push that returns Ok has uploaded the manifest table under the key
\* manifests/snapshots_v2.tsv as its last upload, whether or not a record
\* changed in that push, and the remote table is then the local one; no upload
\* of a push follows the upload of the table.
C12_TablePublishedLast ==
    /\ PushSucceeded =>
          /\ uploaded # <<>>
          /\ LastUpload = <<"manifests", "snapshots_v2.tsv">>
          /\ rman = file
    /\ \A i \in 1..Len(uploaded) :
          uploaded[i] = <<"manifests", "snapshots_v2.tsv">> =>
              (i = Len(uploaded) /\ PushReturned)

\* a push over a table of rows that all carried their keys changed no record
\* and published the table
C12_Witness ==
    /\ PushSucceeded
    /\ ~uchanged
    /\ file = ustart
    /\ Len(RecordsOf(file)) >= 1
    /\ uploaded = <<<<"manifests", "snapshots_v2.tsv">>>>
    /\ rman = file

\* the push stands after its loop with a changed record: the rewrite is next
RewriteDue == upc = "loop" /\ ui > Len(urecs) /\ uchanged

\* C25: write_records(rows) is all-or-nothing: after the call the table holds
\* exactly the passed records, or the call failed and the table is the one it
\* was before; a table with part of the rows is never left.
C25_RewriteAllOrNothing ==
    [][RewriteDue =>
          \/ /\ upc' = "publish"
             /\ read_records(file').ok
             /\ read_records(file').records = urecs
          \/ /\ ures' = "failed to write manifest"
             /\ file' = file]_vars

\* a rewrite of two or more records, one of them keyed by this push, has
\* replaced the table
C25_Witness ==
    /\ upc = "publish"
    /\ uchanged
    /\ Len(urecs) >= 2
    /\ file # ustart
    /\ read_records(file).records = urecs

\* the push returned an error from its loop over the records
FailedInLoop ==
    /\ PushReturned
    /\ ures \in {"missing local_path", "artifact missing", "failed to upload"}
    /\ ui <= Len(urecs)

\* C34: a push that fails before completing, on a record without a local path
\* or without its file or on a failed artifact upload, leaves the local table
\* exactly as it was before the push and uploads no table, also when artifacts
\* were uploaded earlier in the same push.
C34_FailedPushLeavesTable ==
    FailedInLoop =>
        /\ file = ustart
        /\ \A k \in 1..Len(uploaded) : uploaded[k] # ManifestKey

\* the push uploaded an artifact and then failed on a record whose file is gone
C34_Witness ==
    /\ FailedInLoop
    /\ ures = "artifact missing"
    /\ uploaded # <<>>

\* C35: after every push that returns success every record of the local table
\* has an object_key, and the table published under the fixed key is the local
\* table after its rewrite, so a pull planned over it meets no empty key.
C35_SuccessfulPushKeysEveryRecord ==
    PushSucceeded =>
        /\ read_records(file).ok
        /\ \A i \in 1..Len(read_records(file).records) :
              ~KeyIsEmpty(read_records(file).records[i])
        /\ rman = file
        /\ \A i \in 1..Len(read_records(rman).records) :
              ~KeyIsEmpty(read_records(rman).records[i])

\* a push that uploaded two artifacts and the table returned Ok
C35_Witness ==
    /\ PushSucceeded
    /\ Len(uploaded) = 3
    /\ Len(read_records(file).records) >= 2

----------------------------------------------------------------------------
(* Claims about artifact naming *)

NameParsed == rres = "parsed"

\* the two grammars: dev@<label>.full.send.zst.age and
\* dev@<label>.incr.from_<parent>.send.zst.age, labels YYYY-MM
MatchesGrammar(name) ==
    \/ \E l \in Labels : name = <<"dev@", l, ".full", ".send.zst.age">>
    \/ \E l \in Labels, p \in Labels :
          name = <<"dev@", l, ".incr.from_", p, ".send.zst.age">>

\* C16: parse_artifact_filename returns no match for every file name that is
\* not exactly one of the two grammars with valid labels, names with an empty
\* label or parent and names with two .incr.from_ included.
C16_ParseRejectsNonGrammar ==
    (NameParsed /\ ~MatchesGrammar(rarg)) => ~rinfo.some

\* C17: a name built for a valid label and an optional valid parent parses to
\* the same label, to the kind anchor when the parent is absent and
\* incremental when it is present, and to the same parent.
C17_BuildParseRoundTrip ==
    (NameParsed /\ rbuilt # <<>>) =>
        /\ rinfo.some
        /\ rinfo.label = rbuilt[1]
        /\ rinfo.type = (IF rbuilt[2] = <<>> THEN "anchor" ELSE "incremental")
        /\ rinfo.parent = rbuilt[2]

\* an incremental name built for two different labels was parsed
C17_Witness ==
    /\ NameParsed
    /\ rbuilt # <<>>
    /\ rbuilt[2] # <<>>
    /\ rbuilt[2][1] # rbuilt[1]
    /\ rinfo.type = "incremental"

----------------------------------------------------------------------------
(* Claims about the manifest under registration and push *)

\* the fields of a row other than object_key
Immutable(row) ==
    IF row.kind = "data" THEN [row.rec EXCEPT !.object_key = <<>>] ELSE row

\* one step keeps every row of the table in its place and changes no field of
\* it other than object_key
RowsKept ==
    file.exists =>
        /\ file'.exists
        /\ Len(file'.rows) >= Len(file.rows)
        /\ \A i \in 1..Len(file.rows) :
              /\ file'.rows[i].kind = file.rows[i].kind
              /\ Immutable(file'.rows[i]) = Immutable(file.rows[i])

\* C13: through every sequence of register and push operations each manifest
\* row written earlier stays at the same position with its timestamp, label,
\* kind, parent, size, hash and local path unchanged.
C13_RowsImmutableButKey == [][RowsKept]_vars

\* a push has set the key of a row and a registration has then appended a row
C13_Witness ==
    /\ rres = "ok"
    /\ Len(DataRows(file)) >= 3
    /\ DataRows(file)[1].rec.object_key # <<>>
    /\ DataRows(file)[Len(DataRows(file))].rec.object_key = <<>>

\* C14: in every manifest reachable through artifact registration each
\* incremental record has a non-empty parent label and each anchor record has
\* an empty parent.
C14_ParentIffIncremental ==
    \A i \in 1..Len(DataRows(file)) :
        LET r == DataRows(file)[i].rec
        IN  /\ r.type \in {"anchor", "incremental"}
            /\ r.type = "incremental" => r.parent # ""
            /\ r.type = "anchor" => r.parent = ""

\* a file name of one of the two shapes whose label or parent is no YYYY-MM
\* label, the empty one included
EmbedsInvalidLabel(name) ==
    \E l \in NameParts \cup Labels \cup {""}, p \in NameParts \cup Labels \cup {""} :
        LET anchor == SelectSeq(<<"dev@", l, ".full", ".send.zst.age">>,
                                LAMBDA t : t # "")
            incr == SelectSeq(<<"dev@", l, ".incr.from_", p, ".send.zst.age">>,
                              LAMBDA t : t # "")
        IN  \/ name = anchor /\ l \notin Labels
            \/ name = incr /\ (l \notin Labels \/ p \notin Labels)

\* C15: an operation given an invalid label, here registration given a file
\* name that embeds one, is rejected before any side effect: it returns an
\* error, the file stays where it was and no manifest row carries that name.
C15_InvalidLabelNoSideEffect ==
    (rres # "none" /\ EmbedsInvalidLabel(rarg)) =>
        /\ rres # "ok"
        /\ InboxPath(rarg) \in lfiles
        /\ \A i \in 1..Len(DataRows(file)) :
              DataRows(file)[i].rec.label \in Labels

\* a step of register_artifact given the file of this name
Registers(name) ==
    /\ rarg' = name
    /\ pushVars' = pushVars
    /\ lfiles' \subseteq
          lfiles \cup {DestPath(parse_artifact_filename(name), name)}

\* C26: registering an artifact whose canonical file name already exists at
\* the destination directory fails with an error and leaves the existing
\* file and the manifest unchanged, so that no artifact gets a second row.
C26_CollidingRegistrationFails ==
    [][\A name \in RegNames :
          (/\ Registers(name)
           /\ parse_artifact_filename(name).some
           /\ InboxPath(name) \in lfiles
           /\ DestPath(parse_artifact_filename(name), name) \in lfiles)
          => /\ rres' # "ok"
             /\ file' = file
             /\ lfiles' = lfiles]_vars

----------------------------------------------------------------------------
(* Claims about the resolution of "latest" *)

LatestResolved == ppc = "done" /\ ptarget = "latest"

\* C18: resolving "latest" over a table with records gives the label of a
\* record whose timestamp no record of the table exceeds, whatever the kinds,
\* the positions and the lexical order of the labels.
C18_LatestHasMaximumTimestamp ==
    (LatestResolved /\ precs # <<>>) =>
        /\ pres = "ok"
        /\ \E i \in 1..Len(precs) :
              /\ precs[i].label = pcur
              /\ \A j \in 1..Len(precs) : precs[j].ts <= precs[i].ts

\* the record of the one greatest timestamp is an incremental in the first row,
\* and a later anchor row has a later label
C18_Witness ==
    /\ LatestResolved
    /\ Len(precs) >= 2
    /\ precs[1].label = pcur
    /\ precs[1].type = "incremental"
    /\ \A j \in 2..Len(precs) : precs[j].ts < precs[1].ts
    /\ \E j \in 2..Len(precs) :
          /\ precs[j].type = "anchor"
          /\ LabelIndex(precs[j].label) > LabelIndex(pcur)

----------------------------------------------------------------------------
(* Claims about duplicate labels and broken chains *)

\* the row is the last row of the table that carries its label
IsLastRowOfLabel(records, record) ==
    \E i \in 1..Len(records) :
        /\ records[i] = record
        /\ \A j \in (i + 1)..Len(records) : records[j].label # record.label

\* C19: every record the walk takes, for the target and for each parent looked
\* up, is the last row of the table that carries the label looked up.
C19_WalkUsesLastRowOfLabel ==
    ppc \in {"loop", "done"} =>
        \A k \in 1..Len(pchain) : IsLastRowOfLabel(precs, pchain[k])

\* a chain of an anchor and the target was planned, and the table holds an
\* earlier row for the parent's label, an incremental one
C19_Witness ==
    /\ ppc = "done"
    /\ pres = "ok"
    /\ Len(pchain) = 2
    /\ pchain[1].type = "anchor"
    /\ pchain[2].label = ptarget
    /\ \E i \in 1..Len(precs) :
          /\ precs[i].label = pchain[1].label
          /\ precs[i].ts < pchain[1].ts
          /\ precs[i].type = "incremental"

\* the walk took a record that is no anchor and has no parent
ReachedParentless ==
    \E k \in 1..Len(pchain) : pchain[k].type # "anchor" /\ pchain[k].parent = ""

\* C20: when the walk reaches a record that is not an anchor and whose parent
\* is empty, resolution has failed with the chain-integrity error; the call
\* returns that error and no chain.
C20_ParentlessIncrementalFails ==
    ReachedParentless =>
        (ppc = "done" /\ pres = "incremental record missing parent")

\* the walk went from the target to its parent, a parentless incremental
C20_Witness ==
    /\ ppc = "done"
    /\ pres = "incremental record missing parent"
    /\ Len(pchain) = 2
    /\ pchain[1].label = ptarget
    /\ pchain[2].type = "incremental"
    /\ pchain[2].parent = ""

\* C28: when several records share the greatest timestamp, resolving "latest"
\* gives the label of the last of them in the order of the table.
C28_TieGoesToLastSeen ==
    (LatestResolved /\ precs # <<>>) =>
        \E i \in 1..Len(precs) :
            /\ \A j \in 1..Len(precs) : precs[j].ts <= precs[i].ts
            /\ \A j \in (i + 1)..Len(precs) : precs[j].ts < precs[i].ts
            /\ pcur = precs[i].label

\* the walk is at a label it has already taken a record of: the loop of
\* plan_restore decides by the current label alone, so from here it repeats
\* the same iterations without end
WalkRevisits == \E i \in 1..Len(pchain) : pchain[i].label = pcur

\* C32: chain resolution terminates on every finite manifest and every target
\* label with a chain or an error, also when the parent pointers form a cycle
\* and no local snapshot is present: the walk never comes back to a label.
C32_WalkTerminates == ppc = "loop" => ~WalkRevisits

----------------------------------------------------------------------------
(* Claims about sync pull *)

\* the pull is past its planning: it holds a plan
PullPlanned == qpc \in {"fetch", "done"} /\ qi >= 1

\* the object of the label's record exists in the bucket under its key
RemoteKeyExists(records, l) ==
    /\ HasLabel(records, l)
    /\ \E o \in robj : o.key = latest_by_label(records, l).object_key

\* the local-snapshot predicate and the remote-object-key predicate agree
PredicatesAgree ==
    \A l \in PullLabels : (l \in snaps) <=> RemoteKeyExists(RecordsOf(rman), l)

\* C21: for the same records and target, and existence predicates that agree
\* on every label, the pull plan is the chain of the restore plan.
C21_PullPlanIsRestorePlan ==
    (/\ ppc = "done" /\ pres = "ok"
     /\ PullPlanned /\ qtarget = ptarget
     /\ qrecs = precs
     /\ PredicatesAgree)
        => qchain = pchain

\* the plan records without an object_key
Keyless == { k \in 1..Len(qchain) : qchain[k].object_key = <<>> }
FirstKeyless == CHOOSE k \in Keyless : \A j \in Keyless : k <= j

\* the paths below the destination directory the pull has written
DownloadsUpTo(n) ==
    <<<<"snapshots_v2.tsv">>>> \o [k \in 1..n |-> qchain[k].object_key]

\* C22: a pull whose plan has a record with an empty object_key fails with the
\* chain-integrity error at the first such record (or with the error of a
\* download that failed before it); a pull whose plan has none downloads every
\* record of the plan, oldest first, to the destination directory under its
\* object_key and returns Ok (or the error of the download that failed).
C22_KeylessFailsElseAllDownloaded ==
    PullPlanned =>
        /\ qdl = DownloadsUpTo(qi - 1)
        /\ qpc = "done" =>
              IF Keyless # {}
              THEN \/ qres = "missing object_key" /\ qi = FirstKeyless
                   \/ qres = "failed to download" /\ qi < FirstKeyless
              ELSE \/ qres = "ok" /\ qi = Len(qchain) + 1
                   \/ qres = "failed to download" /\ qi <= Len(qchain)

\* a pull downloaded the anchor of its plan and failed at the incremental,
\* which has no object_key
C22_Witness ==
    /\ PullPlanned
    /\ qpc = "done"
    /\ qres = "missing object_key"
    /\ Len(qchain) = 2
    /\ qi = 2
    /\ qdl = <<<<"snapshots_v2.tsv">>, AnchorKey>>

----------------------------------------------------------------------------
(* Claims about the policy engine *)

Decided == dpc = "done"
HasAnchor(records) == \E i \in 1..Len(records) : records[i].type = "anchor"

\* the most recent anchor: the last row of kind anchor
ChosenAnchor(records) ==
    CHOOSE i \in 1..Len(records) :
        /\ records[i].type = "anchor"
        /\ \A j \in (i + 1)..Len(records) : records[j].type # "anchor"

\* floor((now - anchor timestamp) / 30 days)
ElapsedMonths(records, now) ==
    (now - records[ChosenAnchor(records)].ts) \div MonthSeconds

\* the sizes of the records strictly after row n, summed with saturation
RECURSIVE SumAfter(_, _)
SumAfter(records, n) ==
    IF n >= Len(records) THEN 0
    ELSE LET rest == SumAfter(records, n + 1)
             total == records[n + 1].bytes + rest
         IN  IF total > MaxBytes THEN MaxBytes ELSE total

CumulativeBytes(records) == SumAfter(records, ChosenAnchor(records))

AtLeastOne(n) == IF n >= 1 THEN n ELSE 1

\* C23: for records with an anchor the policy returns Anchor exactly when
\* elapsed_months >= max_months_between_anchor or the cumulative incremental
\* bytes >= max(anchor size, 1), and Incremental otherwise; for no records it
\* returns Anchor.
C23_AnchorIffThresholdReached ==
    Decided =>
        /\ drecs = <<>> => dres = "Anchor"
        /\ HasAnchor(drecs) =>
              dres = (IF \/ ElapsedMonths(drecs, dnow) >= dmax
                         \/ CumulativeBytes(drecs) >=
                              AtLeastOne(drecs[ChosenAnchor(drecs)].bytes)
                      THEN "Anchor" ELSE "Incremental")

\* C24: the policy given records of which none is an anchor fails with the
\* no-anchor error and returns no decision.
C24_NoAnchorFails ==
    (Decided /\ drecs # <<>> /\ ~HasAnchor(drecs)) =>
        dres = "no anchor found in manifest"

\* the policy was given two incrementals
C24_Witness ==
    /\ Decided
    /\ Len(drecs) = 2
    /\ ~HasAnchor(drecs)
    /\ dres = "no anchor found in manifest"

\* C29: the cumulative incremental bytes the policy uses are the sizes of
\* exactly the records strictly after the most recent anchor in store order,
\* summed with saturation, also when rows are identical duplicates.
C29_SumOverRecordsAfterAnchor ==
    (Decided /\ HasAnchor(drecs)) => dsum = CumulativeBytes(drecs)

\* C30: the elapsed months the policy uses are floor((now - anchor timestamp)
\* / 30 days), also when the anchor timestamp is later than now.
C30_ElapsedIsFloor ==
    (Decided /\ HasAnchor(drecs)) => dmonths = ElapsedMonths(drecs, dnow)

----------------------------------------------------------------------------
(* Claims about hydration *)

\* the step runs the import pipeline for the label last in hran'
Imports == Len(hran') > Len(hran)

\* the hydrate that just returned Ok follows a hydrate of the same label that
\* returned Ok
RepeatedAfterSuccess ==
    /\ hpc' = "done"
    /\ hres' = "ok"
    /\ hprev'.res = "ok"
    /\ hprev'.label = ptarget'

\* C27: hydrate never runs the import pipeline for a label whose snapshot
\* exists locally, and a hydrate of the same label after a successful hydrate
\* runs no import pipeline at all.
C27_HydrateSkipsExistingSnapshots ==
    [][/\ Imports => hran'[Len(hran')] \notin snaps
       /\ RepeatedAfterSuccess => hran' = <<>>]_vars

\* a hydrate that imported two snapshots was followed by a hydrate of the same
\* label, which returned Ok
C27_Witness ==
    /\ hpc = "done"
    /\ hres = "ok"
    /\ hprev = [res |-> "ok", label |-> ptarget, ran |-> 2]
    /\ hran = <<>>

\* C36: hydrate applies the plan oldest first and stops at the first failure:
\* when the import pipeline is started for an incremental record the snapshot
\* of its parent exists locally, and no pipeline is started once an artifact
\* was missing or a pipeline failed.
C36_ParentImportedFirst ==
    [][Imports =>
          /\ hres = "none"
          /\ pchain[hi].label = hran'[Len(hran')]
          /\ pchain[hi].type = "incremental" => pchain[hi].parent \in snaps]_vars

\* an anchor and the incremental on it were imported in this order
C36_Witness ==
    /\ hpc = "done"
    /\ hres = "ok"
    /\ Len(pchain) = 2
    /\ pchain[1].type = "anchor"
    /\ pchain[2].type = "incremental"
    /\ hran = <<pchain[1].label, pchain[2].label>>

----------------------------------------------------------------------------
(* Claims about the monthly run *)

\* the run decided Incremental
DecidedIncremental == mdec = "Incremental"

\* C31: when the policy decides Incremental, the parent used for the new
\* artifact is the most recent label overall: the label of a record of the
\* manifest whose timestamp no record exceeds.
C31_ParentIsLatestLabel ==
    DecidedIncremental =>
        /\ Len(mparent) = 1
        /\ \E i \in 1..Len(mrecs) :
              /\ mrecs[i].label = mparent[1]
              /\ \A j \in 1..Len(mrecs) : mrecs[j].ts <= mrecs[i].ts
        /\ mres = "ok" => <<mlabel, mparent>> \in built

\* an incremental was built on the label of the latest record, which is not the
\* label of the oldest one
C31_Witness ==
    /\ DecidedIncremental
    /\ mres = "ok"
    /\ Len(mrecs) >= 2
    /\ mrecs[1].label # mparent[1]
    /\ mrecs[1].ts < mrecs[Len(mrecs)].ts

\* C33: after any sequence of run-month and register operations no incremental
\* artifact is built with a parent label equal to its own label.
C33_NoArtifactOnItself ==
    \A b \in built : b[2] # <<b[1]>>

----------------------------------------------------------------------------
(* Claims about applying a restore *)

\* the label given resolves over the table: the table reads and has records,
\* and the label is "latest" or a YYYY-MM label
Resolves(label) ==
    /\ read_records(file).ok
    /\ read_records(file).records # <<>>
    /\ label = "latest" \/ is_valid_label(label)

\* the step deletes the working tree or moves it aside
TreeTouched == tree' # tree \/ aside' # aside

\* the apply has returned because the label did not resolve or the restore
\* snapshot is missing
RefusedApply ==
    /\ apc' = "done"
    /\ \/ ~Resolves(atarget')
       \/ alabel' \notin snaps

\* C37: apply deletes or moves aside the working tree only after the label
\* resolved and its restore snapshot was found to exist; for an invalid label,
\* a label that does not resolve over the manifest or a missing restore
\* snapshot it fails with the working tree untouched.
C37_TreeTouchedOnlyAfterChecks ==
    [][/\ TreeTouched => /\ Resolves(atarget)
                         /\ alabel \in snaps
                         /\ apc \in {"clear", "snapshot"}
       /\ RefusedApply => /\ ares' \notin {"none", "ok"}
                          /\ <<tree', aside'>> = astart']_vars

\* an apply moved a directory aside and put the snapshot in its place
C37_Witness ==
    /\ apc = "done"
    /\ ares = "ok"
    /\ astart[1].kind = "directory"
    /\ aside
    /\ tree = [kind |-> "subvolume", of |-> alabel]

====
